---- MODULE Spec2Model ----
(***************************************************************************)
(* The orchestration engine of the table-to-document pipeline              *)
(* (src/dataset_generation): the job scheduler of main(), the process-wide *)
(* generation pool llm_executor, the four cached stages of process_task,   *)
(* the per-section write / verify / repair units and the final commit.     *)
(*                                                                         *)
(* The text-generation service is a black box: every call_llm returns a    *)
(* text or raises, and every parser / validator / check accepts or rejects *)
(* it; the model draws those outcomes with \E.  The disk is kept across    *)
(* runs of the process (NewRun), the memory of a run is not.               *)
(***************************************************************************)
EXTENDS Integers, Sequences, FiniteSets, TLC

(***************************************************************************)
(* Bounds of the model.                                                    *)
(***************************************************************************)
NumJobs == 2        \* input files found by main()
NumCells == 1       \* non-empty non-key cells of a table
MaxSections == 2    \* sections of a document plan
MaxRuns == 2        \* runs of the process over the same output directory
ManyPlan == 1       \* sections of a plan when several files are processed

PoolSize == 1       \* worker threads of llm_executor

(***************************************************************************)
(* config.py.  REFINE_MAX_RETRIES is the shipped value; the shipped        *)
(* PLAN_MAX_RETRIES and VERIFY_AND_REPAIR_MAX_RETRIES are 3 and 4, and the *)
(* model runs those loops with 2 passes.                                   *)
(***************************************************************************)
PLAN_MAX_RETRIES == 2
REFINE_MAX_RETRIES == 3
VERIFY_AND_REPAIR_MAX_RETRIES == 2

Jobs == 1 .. NumJobs
Cells == 1 .. NumCells
SectionIds == 0 .. (MaxSections - 1)
MaxUnits == IF NumCells > MaxSections THEN NumCells ELSE MaxSections
UnitIds == 1 .. MaxUnits

\* The strategy tags of a cell matter to the refine stage in three classes:
\* no tag, tags without an R* / D* one, tags with one.
Tags == {"none", "T", "R"}

VARIABLES
    proc,      \* "running" | "exited" | "crashed": the process of main()
    run,       \* the number of the current run of the process
    cfg,       \* the configuration and the inputs the process is started with
    pc,        \* pc[j]: where the job's thread is in process_task
    outcome,   \* outcome[j]: how process_task returned in this run
    attempt,   \* attempt[j]: loop counter of the job thread's current loop
    mem,       \* mem[j]: the local variables of process_task
    units,     \* units[j][i]: the job's work items of llm_executor
    workQ,     \* the FIFO work queue of llm_executor
    disk,      \* disk[j]: the job's output directory
    calls,     \* calls[j]: generation calls invoked for the job in this run
    hits,      \* hits[j]: artifacts that were loadable when their unit began
    invoked,   \* invoked[j]: process_task invocations for the file in this run
    prev,      \* how the previous run ended, and the final artifacts it left
    planner,   \* one call of plan_document, with its data
    strategist, \* one call of assign_strategies, with its data
    gate,      \* one call of call_llm, with its data
    namer,     \* one derivation of a path or of a cache key, with its data
    fan        \* one as_completed loop over the work items of a fan-out

\* The variables of the pipeline, and all of them.
pipeline == <<proc, run, cfg, pc, outcome, attempt, mem, units, workQ, disk,
              calls, hits, invoked, prev>>
vars == <<proc, run, cfg, pc, outcome, attempt, mem, units, workQ, disk,
          calls, hits, invoked, prev, planner, strategist, gate, namer, fan>>

(***************************************************************************)
(* Files.  A file is absent, present but not deserializable, or holds a    *)
(* record.                                                                 *)
(***************************************************************************)
File(st, val) == [st |-> st, val |-> val]

\* os.path.exists(path) followed by read_json(path) and the model constructor.
DeserializesNever(f) == FALSE
DeserializesWhatExists(f) == f.st # "absent"
Deserializes(f) == f.st = "ok"

EmptyContent == [w |-> 0, v |-> 0]
NoSection == [id |-> -1, content |-> EmptyContent, verified |-> FALSE]
NoStrategy == [stamp |-> 0, tags |-> [c \in Cells |-> "none"]]
NoFact == [cell |-> 0, stamp |-> 0, split |-> FALSE]
NoPlan == [stamp |-> 0, ids |-> <<>>]
NoFinal == [exists |-> FALSE, body |-> <<>>]
NoPrev == [exited |-> FALSE, final |-> [j \in 1 .. NumJobs |-> NoFinal]]

EmptyDisk ==
    [dir |-> FALSE, raw |-> FALSE,
     strat |-> File("absent", NoStrategy),
     facts |-> File("absent", <<>>),
     plan |-> File("absent", NoPlan),
     cacheDir |-> FALSE,
     cellg |-> [c \in Cells |-> File("absent", 0)],
     factg |-> [c \in Cells |-> File("absent", NoFact)],
     sec |-> [s \in SectionIds |-> File("absent", NoSection)],
     final |-> NoFinal]

EmptyMem ==
    [strat |-> NoStrategy, facts |-> <<>>, plan |-> NoPlan,
     objs |-> [i \in UnitIds |-> NoSection], doc |-> <<>>]

\* A work item: its function (kind), its arguments (tgt: the cell, the index
\* of the section plan or the Section object; tag: the cell's strategies;
\* sid: the section_id of the cache path), where its worker is (st, att), its
\* locals (g, fact, and messages, the context of its retry loop) and its
\* result (res).
NoUnit == [kind |-> "none", st |-> "idle", att |-> 0, tgt |-> 0, tag |-> "none",
           sid |-> -1, res |-> "none", g |-> 0, fact |-> NoFact,
           messages |-> <<>>]

\* The context a retry loop starts with: the system text and the prompt.
Context0 == <<"system", "user">>

\* messages.append of the rejected answer of pass att and of the feedback on
\* it.
Fed(messages, att) == messages \o <<(<<"assistant", att>>), (<<"feedback", att>>)>>

NoUnits == [i \in UnitIds |-> NoUnit]

\* The states of a work item in which its worker thread is inside call_llm.
CallStates == {"gen", "check", "fgen", "fcheck", "wcall", "verify", "repair"}

Active(u) == u.st = "queued" \/ u.st \in CallStates

\* Worker threads of llm_executor that are running a work item.
Running == Cardinality({<<j, i>> \in Jobs \X UnitIds : units[j][i].st \in CallStates})

\* Generation calls in flight: those of the pool's workers and those the job
\* threads make themselves (assign_strategies, plan_document).
InFlight ==
    Running + Cardinality({j \in Jobs : pc[j] \in {"strat_call", "plan_call"}})

\* The pipeline follows the stages of a job, not their data: the data of one
\* plan_document call and of one assign_strategies call have their own
\* specifications (SpecPlan, SpecStrategy) and are at rest here.
NoPlanner == [st |-> "idle"]
NoStrategist == [st |-> "idle"]
NoGate == [st |-> "idle"]
NoNamer == [st |-> "idle"]
NoFan == [st |-> "idle"]

\* What a behaviour is started with: the settings of config.py (strategize:
\* ENABLE_STRATEGY_ASSIGNMENT, dispersion: whether DISPERSION_STRATEGY is
\* set, maxParallel: MAX_PARALLEL_TASK, maxRequests: MAX_CONCURRENT_REQUESTS),
\* the input files and those of them that json.load rejects, the largest
\* plan the generation service emits, the number of runs, and whether the
\* process may be killed.
\* One file is followed through kills and a resumed run with plans of up to
\* MaxSections sections; NumJobs files are followed through one run.
Scenarios ==
    [strategize : {TRUE}, dispersion : BOOLEAN, maxParallel : {1},
     maxRequests : {PoolSize}, files : {{1}}, unreadable : {{}},
     maxPlan : {MaxSections}, runs : {MaxRuns}, kill : {TRUE}]
    \cup [strategize : {FALSE}, dispersion : {TRUE}, maxParallel : 1 .. NumJobs,
          maxRequests : {PoolSize}, files : {Jobs}, unreadable : {{}, {1}},
          maxPlan : {ManyPlan}, runs : {1}, kill : {FALSE}]

\* config.py as the process reads it.
ENABLE_STRATEGY_ASSIGNMENT == cfg.strategize
MAX_PARALLEL_TASK == cfg.maxParallel
MAX_CONCURRENT_REQUESTS == cfg.maxRequests

Init ==
    /\ proc = "running"
    /\ run = 1
    /\ cfg \in Scenarios
    /\ pc = [j \in Jobs |-> "queued"]
    /\ outcome = [j \in Jobs |-> "none"]
    /\ attempt = [j \in Jobs |-> 0]
    /\ mem = [j \in Jobs |-> EmptyMem]
    /\ units = [j \in Jobs |-> NoUnits]
    /\ workQ = <<>>
    /\ disk = [j \in Jobs |-> EmptyDisk]
    /\ calls = [j \in Jobs |-> {}]
    /\ hits = [j \in Jobs |-> {}]
    /\ invoked = [j \in Jobs |-> 0]
    /\ prev = NoPrev
    /\ planner = NoPlanner
    /\ strategist = NoStrategist
    /\ gate = NoGate
    /\ namer = NoNamer
    /\ fan = NoFan

(***************************************************************************)
(* Helpers on the state of one job.                                        *)
(***************************************************************************)
Called(j, key) == calls' = [calls EXCEPT ![j] = @ \cup {key}]

\* What the run found loadable before it looked: recorded from the disk
\* itself, not from the code's own test.
Loadable(j, keyed) ==
    hits' = [hits EXCEPT ![j] = @ \cup {k[1] : k \in {e \in keyed : e[2] = "ok"}}]

\* process_task returns with outcome oc: its locals are gone, and so are the
\* Section objects unless a work item of the job still holds one.
Returns(j, oc) ==
    /\ pc' = [pc EXCEPT ![j] = "done"]
    /\ outcome' = [outcome EXCEPT ![j] = oc]
    /\ attempt' = [attempt EXCEPT ![j] = 0]
    /\ mem' = [mem EXCEPT ![j] =
                 IF \E i \in UnitIds : Active(units[j][i])
                 THEN [EmptyMem EXCEPT !.objs = mem[j].objs]
                 ELSE EmptyMem]

\* process_task returns through its except clause (main.py:245).
JobFailsAll(j) ==
    /\ pc' = [k \in Jobs |-> "done"]
    /\ outcome' = [k \in Jobs |-> "failed"]
    /\ attempt' = [k \in Jobs |-> 0]
    /\ mem' = [k \in Jobs |-> EmptyMem]
JobFails(j) == Returns(j, "failed")

\* llm_executor.submit for the units us (a sequence of work items), in order.
Submit(j, us) ==
    /\ units' = [units EXCEPT ![j] =
                    [i \in UnitIds |-> IF i <= Len(us) THEN us[i] ELSE NoUnit]]
    /\ workQ' = workQ \o [i \in 1 .. Len(us) |-> <<j, i>>]

\* as_completed(futures) has handed out every future.
AllDoneAlways(j) == TRUE
AllDone(j) == \A i \in UnitIds : units[j][i].st \in {"idle", "done"}

\* A worker thread of the pool takes the oldest work item.
TakesBelow(j, i) ==
    /\ proc = "running"
    /\ workQ # <<>>
    /\ Head(workQ) = <<j, i>>
    /\ Running < MAX_CONCURRENT_REQUESTS - 1
Takes(j, i) ==
    /\ proc = "running"
    /\ workQ # <<>>
    /\ Head(workQ) = <<j, i>>
    /\ Running < MAX_CONCURRENT_REQUESTS

(***************************************************************************)
(* main(): the job scheduler.                                              *)
(***************************************************************************)
Executing == {j \in Jobs : pc[j] \notin {"queued", "done", "dead"}}

\* ThreadPoolExecutor(max_workers = MAX_PARALLEL_TASK): a free job thread.
FreeJobThreadAlways == TRUE
FreeJobThread == Cardinality(Executing) < MAX_PARALLEL_TASK

\* The existence test of final_document.md (main.py:41).
FinalExistsNever(j) == FALSE
FinalExists(j) == disk[j].final.exists

\* process_task, from its entry to Step 0 (main.py:22-53).  A table that
\* json.load rejects leaves process_task through its except clause before
\* the copy is made (main.py:46-47).
JobStart(j) ==
    /\ proc = "running"
    /\ j \in cfg.files
    /\ pc[j] = "queued"
    /\ FreeJobThread
    /\ invoked' = [invoked EXCEPT ![j] = @ + 1]
    /\ IF FinalExists(j)
       THEN /\ Returns(j, "skipped")
            /\ disk' = [disk EXCEPT ![j].dir = TRUE]
       ELSE IF j \in cfg.unreadable
       THEN /\ JobFails(j)
            /\ disk' = [disk EXCEPT ![j].dir = TRUE]
       ELSE /\ pc' = [pc EXCEPT ![j] = "strategize"]
            /\ disk' = [disk EXCEPT ![j].dir = TRUE, ![j].raw = TRUE]
            /\ UNCHANGED <<outcome, attempt, mem>>
    /\ UNCHANGED <<proc, run, cfg, planner, strategist, gate, namer, fan, units, workQ, calls,
                   hits, prev>>

(***************************************************************************)
(* Step 0: strategy assignment (main.py:60-74, planner_agent.py:19-76).    *)
(***************************************************************************)
StrategizeStage(j) ==
    /\ proc = "running"
    /\ pc[j] = "strategize"
    /\ Loadable(j, {<<(<<"strategy", 0>>), disk[j].strat.st>>})
    /\ IF Deserializes(disk[j].strat)
       THEN /\ mem' = [mem EXCEPT ![j].strat = disk[j].strat.val]
            /\ pc' = [pc EXCEPT ![j] = "refine"]
            /\ UNCHANGED <<attempt, calls, disk>>
       ELSE IF ENABLE_STRATEGY_ASSIGNMENT
       THEN /\ pc' = [pc EXCEPT ![j] = "strat_call"]
            /\ attempt' = [attempt EXCEPT ![j] = 0]
            /\ Called(j, <<"strategy", 0>>)
            /\ UNCHANGED <<mem, disk>>
       ELSE \* every cell gets the empty list, without a call
            \* (planner_agent.py:23-28).
            /\ mem' = [mem EXCEPT ![j].strat = NoStrategy]
            /\ disk' = [disk EXCEPT ![j].strat = File("ok", NoStrategy)]
            /\ pc' = [pc EXCEPT ![j] = "refine"]
            /\ UNCHANGED <<attempt, calls>>
    /\ UNCHANGED <<proc, run, cfg, planner, strategist, gate, namer, fan, outcome, units, workQ,
                   invoked, prev>>

\* One pass of the retry loop of assign_strategies: call_llm returns, the
\* answer is parsed and validated.
StrategyReturn(j) ==
    /\ proc = "running"
    /\ pc[j] = "strat_call"
    /\ \E accepted \in BOOLEAN :
         IF accepted
         THEN \E tags \in [Cells -> Tags] :
                LET a == [stamp |-> run, tags |-> tags] IN
                /\ mem' = [mem EXCEPT ![j].strat = a]
                /\ disk' = [disk EXCEPT ![j].strat = File("ok", a)]
                /\ pc' = [pc EXCEPT ![j] = "refine"]
                /\ UNCHANGED <<attempt, outcome>>
         ELSE /\ IF attempt[j] + 1 < PLAN_MAX_RETRIES
                 THEN /\ attempt' = [attempt EXCEPT ![j] = @ + 1]
                      /\ UNCHANGED <<pc, outcome, mem>>
                 ELSE JobFails(j)
              /\ disk' = disk
    /\ UNCHANGED <<proc, run, cfg, planner, strategist, gate, namer, fan, units, workQ, calls,
                   hits, invoked, prev>>

(***************************************************************************)
(* Step 1: writing guidance (main.py:81-104, refiner_agent.py:20-330).     *)
(***************************************************************************)
CellUnit(c, tag) ==
    [NoUnit EXCEPT !.kind = "cell", !.st = "queued", !.tgt = c, !.tag = tag]

\* The cells of the assignment, in the order of its dictionary.
CellSeq == [c \in 1 .. NumCells |-> c]

RefineStage(j) ==
    /\ proc = "running"
    /\ pc[j] = "refine"
    /\ Loadable(j, {<<(<<"fact_guidance", 0>>), disk[j].facts.st>>})
    /\ IF Deserializes(disk[j].facts)
       THEN /\ mem' = [mem EXCEPT ![j].facts = disk[j].facts.val]
            /\ pc' = [pc EXCEPT ![j] = "plan"]
            /\ UNCHANGED <<units, workQ, disk>>
       ELSE /\ disk' = [disk EXCEPT ![j].cacheDir = TRUE]
            /\ mem' = [mem EXCEPT ![j].facts = <<>>]
            /\ Submit(j, [n \in 1 .. NumCells |->
                             CellUnit(CellSeq[n], mem[j].strat.tags[CellSeq[n]])])
            /\ pc' = [pc EXCEPT ![j] = "refine_join"]
    /\ UNCHANGED <<proc, run, cfg, planner, strategist, gate, namer, fan, outcome, attempt,
                   calls, invoked, prev>>

\* _generate_fact_guidance, entered with the cell guidance g: without an R*
\* or D* tag the fact is built without a call and stored; otherwise the
\* retry loop starts.  Gives the unit and the fact_guidance/<key> file.
FactPhase(u, tag, g, old) ==
    IF tag # "R"
    THEN LET f == [cell |-> u.tgt, stamp |-> g, split |-> FALSE] IN
         [unit |-> [u EXCEPT !.st = "done", !.res = "ok", !.g = g, !.fact = f],
          file |-> File("ok", f), call |-> FALSE]
    ELSE [unit |-> [u EXCEPT !.st = "fgen", !.att = 0, !.g = g,
                             !.messages = Context0],
          file |-> old, call |-> TRUE]

\* _process_single_cell from its entry to its first generation call
\* (refiner_agent.py:108-159).
CellStart(j, i) ==
    LET u == units[j][i]
        c == u.tgt
        tag == u.tag
        d == disk[j]
    IN
    /\ Takes(j, i)
    /\ u.kind = "cell" /\ u.st = "queued"
    /\ workQ' = Tail(workQ)
    /\ Loadable(j, {<<(<<"factg", c>>), d.factg[c].st>>,
                    <<(<<"cellg", c>>), d.cellg[c].st>>})
    /\ IF Deserializes(d.factg[c])
       THEN /\ units' = [units EXCEPT ![j][i] =
                  [u EXCEPT !.st = "done", !.res = "ok", !.fact = d.factg[c].val]]
            /\ UNCHANGED <<disk, calls>>
       ELSE IF Deserializes(d.cellg[c]) \/ tag = "none"
       THEN LET g == IF Deserializes(d.cellg[c]) THEN d.cellg[c].val ELSE 0
                ph == FactPhase(u, tag, g, d.factg[c])
            IN
            /\ units' = [units EXCEPT ![j][i] = ph.unit]
            /\ disk' = [disk EXCEPT ![j].cellg[c] = File("ok", g),
                                    ![j].factg[c] = ph.file]
            /\ IF ph.call THEN Called(j, <<"factg", c>>) ELSE calls' = calls
       ELSE /\ units' = [units EXCEPT ![j][i] =
                  [u EXCEPT !.st = "gen", !.att = 0, !.messages = Context0]]
            /\ Called(j, <<"cellg", c>>)
            /\ disk' = disk
    /\ UNCHANGED <<proc, run, cfg, planner, strategist, gate, namer, fan, pc, outcome, attempt,
                   mem, invoked, prev>>

\* A failed pass of a retry loop of the refine stage: the next pass, or the
\* loop is exhausted and the unit ends with res.
NextPassAgain(u, st, res) == [u EXCEPT !.st = st]
NextPass(u, st, res) ==
    IF u.att + 1 < REFINE_MAX_RETRIES
    THEN [u EXCEPT !.att = @ + 1, !.st = st]
    ELSE [u EXCEPT !.att = @ + 1, !.st = "done", !.res = res]

\* The pass was rejected by the check: the answer and the feedback are
\* appended to the context (refiner_agent.py:194-195, 308-309).
RejectedReturns(u, st, res) ==
    [u EXCEPT !.st = "done", !.res = "ok", !.messages = <<>>,
              !.fact = [cell |-> u.tgt, stamp |-> u.g, split |-> TRUE]]
Rejected(u, st, res) ==
    LET v == NextPass(u, st, res) IN
    [v EXCEPT !.messages = IF v.st = "done" THEN <<>> ELSE Fed(u.messages, u.att)]

\* The pass ended in the except clause: the context is built anew
\* (refiner_agent.py:197-202, 323-328).
Excepted(u, st, res) ==
    LET v == NextPass(u, st, res) IN
    [v EXCEPT !.messages = IF v.st = "done" THEN <<>> ELSE Context0]

\* _generate_cell_guidance: the generation call returns
\* (refiner_agent.py:181-204).  Exhausting the loop returns None and
\* _process_single_cell raises (refiner_agent.py:128-131).
CellGenReturn(j, i) ==
    LET u == units[j][i] IN
    /\ proc = "running"
    /\ u.kind = "cell" /\ u.st = "gen"
    /\ \E parsed \in BOOLEAN :
         units' = [units EXCEPT ![j][i] =
                     IF parsed THEN [u EXCEPT !.st = "check"]
                     ELSE Excepted(u, "gen", "raised")]
    /\ UNCHANGED <<proc, run, cfg, planner, strategist, gate, namer, fan, pc, outcome, attempt,
                   mem, workQ, disk, calls, hits, invoked, prev>>

\* _verify_cell_guidance: the check call returns its verdict, or it raises
\* (refiner_agent.py:188-202, 232-246).
CellCheckReturn(j, i) ==
    LET u == units[j][i]
        c == u.tgt
        tag == u.tag
    IN
    /\ proc = "running"
    /\ u.kind = "cell" /\ u.st = "check"
    /\ \E out \in {"ok", "rejected", "raised"} :
         IF out = "ok"
         THEN LET ph == FactPhase([u EXCEPT !.messages = <<>>], tag, run,
                                  disk[j].factg[c])
              IN
              /\ units' = [units EXCEPT ![j][i] = ph.unit]
              /\ disk' = [disk EXCEPT ![j].cellg[c] = File("ok", run),
                                      ![j].factg[c] = ph.file]
              /\ IF ph.call THEN Called(j, <<"factg", c>>) ELSE calls' = calls
         ELSE /\ units' = [units EXCEPT ![j][i] =
                             IF out = "rejected" THEN Rejected(u, "gen", "raised")
                             ELSE Excepted(u, "gen", "raised")]
              /\ UNCHANGED <<disk, calls>>
    /\ UNCHANGED <<proc, run, cfg, planner, strategist, gate, namer, fan, pc, outcome, attempt,
                   mem, workQ, hits, invoked, prev>>

\* _generate_fact_guidance: the generation call returns
\* (refiner_agent.py:286-330).  Exhausting the loop returns None.
FactGenReturn(j, i) ==
    LET u == units[j][i]
        c == u.tgt
    IN
    /\ proc = "running"
    /\ u.kind = "cell" /\ u.st = "fgen"
    /\ \E out \in {"bad", "whole", "split"} :
         CASE out = "bad" ->
                /\ units' = [units EXCEPT ![j][i] = Excepted(u, "fgen", "null")]
                /\ disk' = disk
           [] out = "whole" ->
                LET f == [cell |-> c, stamp |-> u.g, split |-> FALSE] IN
                /\ units' = [units EXCEPT ![j][i] =
                               [u EXCEPT !.st = "done", !.res = "ok", !.fact = f,
                                         !.messages = <<>>]]
                /\ disk' = [disk EXCEPT ![j].factg[c] = File("ok", f)]
           [] out = "split" ->
                /\ units' = [units EXCEPT ![j][i] = [u EXCEPT !.st = "fcheck"]]
                /\ disk' = disk
    /\ UNCHANGED <<proc, run, cfg, planner, strategist, gate, namer, fan, pc, outcome, attempt,
                   mem, workQ, calls, hits, invoked, prev>>

\* _verify_fact_guidance: the check call of a split returns its verdict;
\* when the call or the reading of its answer raises, _verify_fact_guidance
\* catches it and returns a rejection of its own (refiner_agent.py:305-310,
\* 332-367).
FactCheckReturn(j, i) ==
    LET u == units[j][i]
        c == u.tgt
    IN
    /\ proc = "running"
    /\ u.kind = "cell" /\ u.st = "fcheck"
    /\ \E out \in {"ok", "rejected", "raised"} :
         IF out = "ok"
         THEN LET f == [cell |-> c, stamp |-> run, split |-> TRUE] IN
              /\ units' = [units EXCEPT ![j][i] =
                             [u EXCEPT !.st = "done", !.res = "ok", !.fact = f,
                                       !.messages = <<>>]]
              /\ disk' = [disk EXCEPT ![j].factg[c] = File("ok", f)]
         ELSE /\ units' = [units EXCEPT ![j][i] = Rejected(u, "fgen", "null")]
              /\ disk' = disk
    /\ UNCHANGED <<proc, run, cfg, planner, strategist, gate, namer, fan, pc, outcome, attempt,
                   mem, workQ, calls, hits, invoked, prev>>

\* refine_all_cells collects one finished future (refiner_agent.py:84-90):
\* an exception of the unit leaves process_task, None is left out.
RefineCollect(j, i) ==
    LET u == units[j][i] IN
    /\ proc = "running"
    /\ pc[j] = "refine_join"
    /\ u.kind = "cell" /\ u.st = "done" /\ u.res # "none"
    /\ units' = [units EXCEPT ![j][i] = [u EXCEPT !.res = "none"]]
    /\ IF u.res = "raised"
       THEN JobFails(j)
       ELSE /\ mem' = [mem EXCEPT ![j].facts =
                         IF u.res = "ok" THEN Append(@, u.fact) ELSE @]
            /\ UNCHANGED <<pc, outcome, attempt>>
    /\ UNCHANGED <<proc, run, cfg, planner, strategist, gate, namer, fan, workQ, disk, calls,
                   hits, invoked, prev>>

Collected(j) == \A i \in UnitIds : units[j][i].st \in {"idle", "done"} /\ units[j][i].res = "none"

\* refine_all_cells returns and fact_guidance.json is written
\* (main.py:102-103).
RefineJoin(j) ==
    /\ proc = "running"
    /\ pc[j] = "refine_join"
    /\ Collected(j)
    /\ disk' = [disk EXCEPT ![j].facts = File("ok", mem[j].facts)]
    /\ units' = [units EXCEPT ![j] = NoUnits]
    /\ pc' = [pc EXCEPT ![j] = "plan"]
    /\ UNCHANGED <<proc, run, cfg, planner, strategist, gate, namer, fan, outcome, attempt, mem,
                   workQ, calls, hits, invoked, prev>>

(***************************************************************************)
(* Step 2: document plan (main.py:111-139, planner_agent.py:97-215).       *)
(***************************************************************************)
\* The section_id values of a plan are the generator's; the code checks
\* neither their order nor their uniqueness.  Up to renaming, the plans of
\* at most MaxSections sections:
PlanChoices ==
    {ids \in UNION {[1 .. n -> SectionIds] : n \in 0 .. MaxSections} :
        \A n \in DOMAIN ids : ids[n] < n}

PlanStage(j) ==
    /\ proc = "running"
    /\ pc[j] = "plan"
    /\ Loadable(j, {<<(<<"plan", 0>>), disk[j].plan.st>>})
    /\ IF Deserializes(disk[j].plan)
       THEN /\ mem' = [mem EXCEPT ![j].plan = disk[j].plan.val]
            /\ pc' = [pc EXCEPT ![j] = "write"]
            /\ UNCHANGED <<attempt, calls, outcome>>
       ELSE IF cfg.dispersion
       THEN /\ pc' = [pc EXCEPT ![j] = "plan_call"]
            /\ attempt' = [attempt EXCEPT ![j] = 0]
            /\ Called(j, <<"plan", 0>>)
            /\ UNCHANGED <<mem, outcome>>
       ELSE \* config.DISPERSION_STRATEGY is read before the loop
            \* (planner_agent.py:156) and config.py does not set it.
            /\ JobFails(j)
            /\ calls' = calls
    /\ UNCHANGED <<proc, run, cfg, planner, strategist, gate, namer, fan, units, workQ, disk,
                   invoked, prev>>

\* One pass of the retry loop of plan_document.  A plan without sections
\* passes _validate_document_plan only when there is no fact to place
\* (planner_agent.py:217-254).
PlanReturn(j) ==
    /\ proc = "running"
    /\ pc[j] = "plan_call"
    /\ \E accepted \in BOOLEAN :
         IF accepted
         THEN \E ids \in {p \in PlanChoices :
                              /\ Len(p) <= cfg.maxPlan
                              /\ p = <<>> => mem[j].facts = <<>>} :
                LET p == [stamp |-> run, ids |-> ids] IN
                /\ mem' = [mem EXCEPT ![j].plan = p]
                /\ disk' = [disk EXCEPT ![j].plan = File("ok", p)]
                /\ pc' = [pc EXCEPT ![j] = "write"]
                /\ UNCHANGED <<attempt, outcome>>
         ELSE /\ IF attempt[j] + 1 < PLAN_MAX_RETRIES
                 THEN /\ attempt' = [attempt EXCEPT ![j] = @ + 1]
                      /\ UNCHANGED <<pc, outcome, mem>>
                 ELSE JobFails(j)
              /\ disk' = disk
    /\ UNCHANGED <<proc, run, cfg, planner, strategist, gate, namer, fan, units, workQ, calls,
                   hits, invoked, prev>>

(***************************************************************************)
(* Step 3: write the sections (main.py:144-187, 249-271).                  *)
(***************************************************************************)
WriteUnit(n, sid) ==
    [NoUnit EXCEPT !.kind = "write", !.st = "queued", !.tgt = n, !.sid = sid]

WriteStage(j) ==
    /\ proc = "running"
    /\ pc[j] = "write"
    /\ disk' = [disk EXCEPT ![j].cacheDir = TRUE]
    /\ Submit(j, [n \in 1 .. Len(mem[j].plan.ids) |->
                     WriteUnit(n, mem[j].plan.ids[n])])
    /\ pc' = [pc EXCEPT ![j] = "write_join"]
    /\ UNCHANGED <<proc, run, cfg, planner, strategist, gate, namer, fan, outcome, attempt, mem,
                   calls, hits, invoked, prev>>

\* write_section_task from its entry to the generation call.
\* Section(**data) (main.py:255): the fields of the artifact, its verified
\* flag among them, become the Section.
SectionUnverified(data) == [data EXCEPT !.verified = FALSE]
Section(data) == data

WriteStart(j, i) ==
    LET u == units[j][i]
        sid == u.sid
        f == disk[j].sec[sid]
    IN
    /\ Takes(j, i)
    /\ u.kind = "write" /\ u.st = "queued"
    /\ workQ' = Tail(workQ)
    /\ Loadable(j, {<<(<<"section", i>>), f.st>>})
    /\ IF Deserializes(f)
       THEN /\ units' = [units EXCEPT ![j][i] = [u EXCEPT !.st = "done", !.res = "ok"]]
            /\ mem' = [mem EXCEPT ![j].objs[i] = Section(f.val)]
            /\ calls' = calls
       ELSE /\ units' = [units EXCEPT ![j][i] = [u EXCEPT !.st = "wcall"]]
            /\ Called(j, <<"section", i>>)
            /\ mem' = mem
    /\ UNCHANGED <<proc, run, cfg, planner, strategist, gate, namer, fan, pc, outcome, attempt,
                   disk, invoked, prev>>

\* writer.write_section returns: the text, or "" when call_llm raised
\* (writer_agent.py:78-83); the Section is built and cached
\* (main.py:263-271).  A content that is no string makes Section(...) raise.
WriteReturn(j, i) ==
    LET u == units[j][i]
        sid == u.sid
    IN
    /\ proc = "running"
    /\ u.kind = "write" /\ u.st = "wcall"
    /\ \E out \in {"text", "failed", "nostring"} :
         IF out = "nostring"
         THEN /\ units' = [units EXCEPT ![j][i] = [u EXCEPT !.st = "done", !.res = "raised"]]
              /\ UNCHANGED <<mem, disk>>
         ELSE LET s == [id |-> sid,
                        content |-> IF out = "text" THEN [w |-> i, v |-> 1]
                                    ELSE EmptyContent,
                        verified |-> FALSE]
              IN
              /\ units' = [units EXCEPT ![j][i] = [u EXCEPT !.st = "done", !.res = "ok"]]
              /\ mem' = [mem EXCEPT ![j].objs[i] = s]
              /\ disk' = [disk EXCEPT ![j].sec[sid] = File("ok", s)]
    /\ UNCHANGED <<proc, run, cfg, planner, strategist, gate, namer, fan, pc, outcome, attempt,
                   workQ, calls, hits, invoked, prev>>

\* The indices i of 1 .. n with keep[i], in order.
RECURSIVE Kept(_, _)
Kept(n, keep) ==
    IF n = 0 THEN <<>>
    ELSE IF keep[n] THEN Append(Kept(n - 1, keep), n) ELSE Kept(n - 1, keep)

\* as_completed over the write futures, the filter of the failed ones and
\* the Document (main.py:170-187).
WriteJoin(j) ==
    /\ proc = "running"
    /\ pc[j] = "write_join"
    /\ AllDone(j)
    /\ mem' = [mem EXCEPT ![j].doc =
                  Kept(MaxUnits, [i \in UnitIds |-> units[j][i].res = "ok"])]
    /\ units' = [units EXCEPT ![j] = NoUnits]
    /\ pc' = [pc EXCEPT ![j] = "round"]
    /\ attempt' = [attempt EXCEPT ![j] = 0]
    /\ UNCHANGED <<proc, run, cfg, planner, strategist, gate, namer, fan, outcome, workQ, disk,
                   calls, hits, invoked, prev>>

(***************************************************************************)
(* Step 4: verify and repair (main.py:194-221, 274-288).                   *)
(***************************************************************************)
Unverified(j) ==
    Kept(Len(mem[j].doc),
         [p \in 1 .. Len(mem[j].doc) |-> ~mem[j].objs[mem[j].doc[p]].verified])

AllVerified(j) == \A p \in DOMAIN mem[j].doc : mem[j].objs[mem[j].doc[p]].verified

VerifyUnit(o, sid) ==
    [NoUnit EXCEPT !.kind = "vr", !.st = "queued", !.tgt = o, !.sid = sid]

\* The head of the round loop: it ends after VERIFY_AND_REPAIR_MAX_RETRIES
\* rounds or when no section is unverified; otherwise one unit is submitted
\* for every unverified section of the document.
RoundStart(j) ==
    LET un == Unverified(j) IN
    /\ proc = "running"
    /\ pc[j] = "round"
    /\ IF attempt[j] >= VERIFY_AND_REPAIR_MAX_RETRIES \/ un = <<>>
       THEN /\ pc' = [pc EXCEPT ![j] = "assemble"]
            /\ UNCHANGED <<units, workQ>>
       ELSE /\ Submit(j, [n \in 1 .. Len(un) |->
                             VerifyUnit(mem[j].doc[un[n]],
                                        mem[j].objs[mem[j].doc[un[n]]].id)])
            /\ pc' = [pc EXCEPT ![j] = "round_join"]
    /\ UNCHANGED <<proc, run, cfg, planner, strategist, gate, namer, fan, outcome, attempt, mem,
                   disk, calls, hits, invoked, prev>>

\* verify_repair_section_task: the worker calls verifier.verify_section.
VerifyStart(j, i) ==
    LET u == units[j][i] IN
    /\ Takes(j, i)
    /\ u.kind = "vr" /\ u.st = "queued"
    /\ workQ' = Tail(workQ)
    /\ units' = [units EXCEPT ![j][i] = [u EXCEPT !.st = "verify"]]
    /\ Called(j, <<"verify", 0>>)
    /\ UNCHANGED <<proc, run, cfg, planner, strategist, gate, namer, fan, pc, outcome, attempt,
                   mem, disk, hits, invoked, prev>>

\* section.verified = True (main.py:279).
Verified(s) == [s EXCEPT !.verified = TRUE]

\* section.content = repaired_content; section.verified = False
\* (main.py:284-286).  The text of the n-th repair of object o is
\* [w |-> o, v |-> n + 1] when the section was written with a text.
Repaired(s, o) ==
    [s EXCEPT !.verified = FALSE, !.content = [w |-> o, v |-> s.content.v + 1]]

\* verify_section returns (a failure of the call or of its parse is a
\* VerificationResult with one defect, verifier_agent.py:83-89).  A passed
\* section is marked and cached; otherwise repair_section formats the
\* defects, which raises when one lacks 'description' or 'suggestion'
\* (writer_agent.py:129), and calls the generator.
VerifyReturn(j, i) ==
    LET u == units[j][i]
        o == u.tgt
    IN
    /\ proc = "running"
    /\ u.kind = "vr" /\ u.st = "verify"
    /\ \E out \in {"ok", "defects", "illshaped"} :
         CASE out = "ok" ->
                LET s == Verified(mem[j].objs[o]) IN
                /\ mem' = [mem EXCEPT ![j].objs[o] = s]
                /\ disk' = [disk EXCEPT ![j].sec[s.id] = File("ok", s)]
                /\ units' = [units EXCEPT ![j][i] = [u EXCEPT !.st = "done", !.res = "ok"]]
                /\ calls' = calls
           [] out = "defects" ->
                /\ units' = [units EXCEPT ![j][i] = [u EXCEPT !.st = "repair"]]
                /\ Called(j, <<"repair", 0>>)
                /\ UNCHANGED <<mem, disk>>
           [] out = "illshaped" ->
                /\ units' = [units EXCEPT ![j][i] = [u EXCEPT !.st = "done", !.res = "raised"]]
                /\ UNCHANGED <<mem, disk, calls>>
    /\ UNCHANGED <<proc, run, cfg, planner, strategist, gate, namer, fan, pc, outcome, attempt,
                   workQ, hits, invoked, prev>>

\* repair_section returns the new text, or the original one when call_llm
\* raised (writer_agent.py:142-147); the section is cached unverified.
RepairReturn(j, i) ==
    LET u == units[j][i]
        o == u.tgt
        old == mem[j].objs[o]
    IN
    /\ proc = "running"
    /\ u.kind = "vr" /\ u.st = "repair"
    /\ \E repaired \in BOOLEAN :
         LET s == IF repaired THEN Repaired(old, o)
                  ELSE [old EXCEPT !.verified = FALSE]
         IN
         /\ mem' = [mem EXCEPT ![j].objs[o] = s]
         /\ disk' = [disk EXCEPT ![j].sec[s.id] = File("ok", s)]
    /\ units' = [units EXCEPT ![j][i] = [u EXCEPT !.st = "done", !.res = "ok"]]
    /\ UNCHANGED <<proc, run, cfg, planner, strategist, gate, namer, fan, pc, outcome, attempt,
                   workQ, calls, hits, invoked, prev>>

\* The first position of the document whose section has the id of object o.
FirstWithId(j, o) ==
    CHOOSE p \in DOMAIN mem[j].doc :
        /\ mem[j].objs[mem[j].doc[p]].id = mem[j].objs[o].id
        /\ \A q \in 1 .. (p - 1) : mem[j].objs[mem[j].doc[q]].id # mem[j].objs[o].id

\* The round collects one finished future (main.py:212-218): an exception
\* of the unit leaves process_task; otherwise the returned section replaces
\* the first section of the document with its id.
RoundCollect(j, i) ==
    LET u == units[j][i] IN
    /\ proc = "running"
    /\ pc[j] = "round_join"
    /\ u.kind = "vr" /\ u.st = "done" /\ u.res # "none"
    /\ units' = [units EXCEPT ![j][i] = [u EXCEPT !.res = "none"]]
    /\ IF u.res = "raised"
       THEN JobFails(j)
       ELSE /\ mem' = [mem EXCEPT ![j].doc[FirstWithId(j, u.tgt)] = u.tgt]
            /\ UNCHANGED <<pc, outcome, attempt>>
    /\ UNCHANGED <<proc, run, cfg, planner, strategist, gate, namer, fan, workQ, disk, calls,
                   hits, invoked, prev>>

RoundJoin(j) ==
    /\ proc = "running"
    /\ pc[j] = "round_join"
    /\ Collected(j)
    /\ units' = [units EXCEPT ![j] = NoUnits]
    /\ attempt' = [attempt EXCEPT ![j] = @ + 1]
    /\ pc' = [pc EXCEPT ![j] = "round"]
    /\ UNCHANGED <<proc, run, cfg, planner, strategist, gate, namer, fan, outcome, mem, workQ,
                   disk, calls, hits, invoked, prev>>

(***************************************************************************)
(* The final document (main.py:220-243).                                   *)
(***************************************************************************)
\* The test that guards the synthesis (main.py:220, 226).
MayCommitAlways(j) == TRUE
MayCommit(j) == AllVerified(j)

\* Counts the verified sections; returns, or opens final_document.md.
Assemble(j) ==
    /\ proc = "running"
    /\ pc[j] = "assemble"
    /\ IF MayCommit(j)
       THEN /\ disk' = [disk EXCEPT ![j].final = [exists |-> TRUE, body |-> <<>>]]
            /\ pc' = [pc EXCEPT ![j] = "commit"]
            /\ attempt' = [attempt EXCEPT ![j] = 0]
            /\ UNCHANGED <<outcome, mem>>
       ELSE /\ Returns(j, "incomplete")
            /\ disk' = disk
    /\ UNCHANGED <<proc, run, cfg, planner, strategist, gate, namer, fan, units, workQ, calls,
                   hits, invoked, prev>>

\* One f.write of the loop over the sections (main.py:233-234).
CommitWrite(j) ==
    /\ proc = "running"
    /\ pc[j] = "commit"
    /\ attempt[j] < Len(mem[j].doc)
    /\ disk' = [disk EXCEPT ![j].final.body =
                  Append(@, mem[j].objs[mem[j].doc[attempt[j] + 1]].content)]
    /\ attempt' = [attempt EXCEPT ![j] = @ + 1]
    /\ UNCHANGED <<proc, run, cfg, planner, strategist, gate, namer, fan, pc, outcome, mem,
                   units, workQ, calls, hits, invoked, prev>>

\* The with-block of the synthesis has written every section and closed the
\* file (main.py:232-234).
SynthesizedAlways(j) == TRUE
Synthesized(j) == attempt[j] = Len(mem[j].doc)

\* The staging directory without its files (shutil.rmtree).
Removed(d) ==
    [d EXCEPT !.cacheDir = FALSE,
              !.cellg = [c \in Cells |-> File("absent", 0)],
              !.factg = [c \in Cells |-> File("absent", NoFact)],
              !.sec = [s \in SectionIds |-> File("absent", NoSection)]]

\* The file is closed, then the cache directory is removed; a failure of
\* rmtree is logged (main.py:236-243).
Cleanup(j) ==
    /\ proc = "running"
    /\ pc[j] = "commit"
    /\ Synthesized(j)
    /\ \E removed \in BOOLEAN :
         disk' = [disk EXCEPT ![j] = IF removed THEN Removed(@) ELSE @]
    /\ Returns(j, "committed")
    /\ UNCHANGED <<proc, run, cfg, planner, strategist, gate, namer, fan, units, workQ, calls,
                   hits, invoked, prev>>

(***************************************************************************)
(* The process: its exit, a crash, and the next run.                       *)
(***************************************************************************)
\* main() returns when every process_task has; the interpreter then joins
\* the workers of llm_executor, which first drain the work queue.
MainExit ==
    /\ proc = "running"
    /\ \A j \in cfg.files : pc[j] = "done"
    /\ \A j \in Jobs : \A i \in UnitIds : ~Active(units[j][i])
    /\ proc' = "exited"
    /\ mem' = [j \in Jobs |-> EmptyMem]
    /\ units' = [j \in Jobs |-> NoUnits]
    /\ UNCHANGED <<run, cfg, planner, strategist, gate, namer, fan, pc, outcome, attempt, workQ,
                   disk, calls, hits, invoked, prev>>

\* The files a thread is about to write with write_json: <<job, file, key>>.
Writing ==
    {<<j, "strat", 0>> : j \in {k \in Jobs : pc[k] = "strat_call"}}
    \cup {<<j, "plan", 0>> : j \in {k \in Jobs : pc[k] = "plan_call"}}
    \cup {<<j, "facts", 0>> : j \in {k \in Jobs : pc[k] = "refine_join" /\ Collected(k)}}
    \cup {<<e[1], "cellg", units[e[1]][e[2]].tgt>> :
            e \in {x \in Jobs \X UnitIds : units[x[1]][x[2]].st = "check"}}
    \cup {<<e[1], "factg", units[e[1]][e[2]].tgt>> :
            e \in {x \in Jobs \X UnitIds : units[x[1]][x[2]].st \in {"fgen", "fcheck"}}}
    \cup {<<e[1], "sec", units[e[1]][e[2]].sid>> :
            e \in {x \in Jobs \X UnitIds :
                     units[x[1]][x[2]].st \in {"wcall", "verify", "repair"}}}

\* write_json opens its file with 'w' and dumps into it: a process killed
\* in between leaves a file that exists and does not parse.
Torn(d, t) ==
    CASE t[2] = "strat" -> [d EXCEPT !.strat = File("corrupt", NoStrategy)]
      [] t[2] = "plan" -> [d EXCEPT !.plan = File("corrupt", NoPlan)]
      [] t[2] = "facts" -> [d EXCEPT !.facts = File("corrupt", <<>>)]
      [] t[2] = "cellg" -> [d EXCEPT !.cellg[t[3]] = File("corrupt", 0)]
      [] t[2] = "factg" -> [d EXCEPT !.factg[t[3]] = File("corrupt", NoFact)]
      [] t[2] = "sec" -> [d EXCEPT !.sec[t[3]] = File("corrupt", NoSection)]

\* The process is killed, between two file operations or inside one
\* write_json.
Crash ==
    /\ proc = "running"
    /\ cfg.kill
    /\ proc' = "crashed"
    /\ pc' = [j \in Jobs |-> "dead"]
    /\ attempt' = [j \in Jobs |-> 0]
    /\ mem' = [j \in Jobs |-> EmptyMem]
    /\ units' = [j \in Jobs |-> NoUnits]
    /\ workQ' = <<>>
    /\ \E torn \in {{}} \cup {{t} : t \in Writing} :
         disk' = [j \in Jobs |->
                    IF \E t \in torn : t[1] = j
                    THEN Torn(disk[j], CHOOSE t \in torn : t[1] = j)
                    ELSE disk[j]]
    /\ UNCHANGED <<run, cfg, planner, strategist, gate, namer, fan, outcome, calls, hits,
                   invoked, prev>>

\* The pipeline is started again on the same input and output directories.
NewRun ==
    /\ proc \in {"exited", "crashed"}
    /\ run < cfg.runs
    /\ proc' = "running"
    /\ run' = run + 1
    /\ pc' = [j \in Jobs |-> "queued"]
    /\ outcome' = [j \in Jobs |-> "none"]
    /\ attempt' = [j \in Jobs |-> 0]
    /\ mem' = [j \in Jobs |-> EmptyMem]
    /\ units' = [j \in Jobs |-> NoUnits]
    /\ workQ' = <<>>
    /\ calls' = [j \in Jobs |-> {}]
    /\ hits' = [j \in Jobs |-> {}]
    /\ invoked' = [j \in Jobs |-> 0]
    /\ prev' = [exited |-> proc = "exited", final |-> [j \in Jobs |-> disk[j].final]]
    /\ UNCHANGED <<cfg, planner, strategist, gate, namer, fan, disk>>

Next ==
    \/ \E j \in Jobs :
         \/ JobStart(j)
         \/ StrategizeStage(j) \/ StrategyReturn(j)
         \/ RefineStage(j) \/ RefineJoin(j)
         \/ PlanStage(j) \/ PlanReturn(j)
         \/ WriteStage(j) \/ WriteJoin(j)
         \/ RoundStart(j) \/ RoundJoin(j)
         \/ Assemble(j) \/ CommitWrite(j) \/ Cleanup(j)
    \/ \E j \in Jobs, i \in UnitIds :
         \/ CellStart(j, i) \/ CellGenReturn(j, i) \/ CellCheckReturn(j, i)
         \/ FactGenReturn(j, i) \/ FactCheckReturn(j, i) \/ RefineCollect(j, i)
         \/ WriteStart(j, i) \/ WriteReturn(j, i)
         \/ VerifyStart(j, i) \/ VerifyReturn(j, i) \/ RepairReturn(j, i)
         \/ RoundCollect(j, i)
    \/ MainExit
    \/ Crash
    \/ NewRun

Spec == Init /\ [][Next]_vars

\* The threads of a running process keep running: as long as some step of
\* the process other than its kill is possible, one is taken.  Every call
\* of the generation service returns or fails.  A kill and a new run of
\* the process are the operator's and may never come.  The scenarios: the
\* files of Scenarios that are processed without a kill, one file with the
\* strategies assigned and a plan of up to MaxSections sections, and one
\* file with a plan of ManyPlan sections followed through kills and a
\* resumed run.
Runs == Next /\ proc' # "crashed" /\ run' = run
LiveScenarios ==
    {c \in Scenarios : ~c.kill}
    \cup [strategize : {TRUE}, dispersion : {TRUE}, maxParallel : {1},
          maxRequests : {PoolSize}, files : {{1}}, unreadable : {{}},
          maxPlan : {MaxSections}, runs : {1}, kill : {FALSE}]
    \cup [strategize : {TRUE}, dispersion : {TRUE}, maxParallel : {1},
          maxRequests : {PoolSize}, files : {{1}}, unreadable : {{}},
          maxPlan : {ManyPlan}, runs : {MaxRuns}, kill : {TRUE}]
InitLive ==
    /\ proc = "running"
    /\ run = 1
    /\ cfg \in LiveScenarios
    /\ pc = [j \in Jobs |-> "queued"]
    /\ outcome = [j \in Jobs |-> "none"]
    /\ attempt = [j \in Jobs |-> 0]
    /\ mem = [j \in Jobs |-> EmptyMem]
    /\ units = [j \in Jobs |-> NoUnits]
    /\ workQ = <<>>
    /\ disk = [j \in Jobs |-> EmptyDisk]
    /\ calls = [j \in Jobs |-> {}]
    /\ hits = [j \in Jobs |-> {}]
    /\ invoked = [j \in Jobs |-> 0]
    /\ prev = NoPrev
    /\ planner = NoPlanner
    /\ strategist = NoStrategist
    /\ gate = NoGate
    /\ namer = NoNamer
    /\ fan = NoFan
SpecLive == InitLive /\ [][Next]_vars /\ WF_vars(Runs)

(***************************************************************************)
(* plan_document with its data (planner_agent.py:97-254).                  *)
(***************************************************************************)
MaxFacts == 2       \* facts handed to plan_document, and entries of a section

\* The strings of an answer's fact lists: <<"id", k>> is the decimal string
\* of k, <<"text", k>> the statement of the k-th fact.
Entries ==
    {<<"id", k>> : k \in 1 .. (MaxFacts + 1)} \cup {<<"text", k>> : k \in 1 .. MaxFacts}

\* The fact strings main.py hands over (main.py:119-125).
FactStrings(n) == [k \in 1 .. n |-> <<"text", k>>]

\* The answers of the generation service that parse into a DocumentPlan:
\* the fact lists of at most MaxSections sections.
FactLists == UNION {[1 .. n -> Entries] : n \in 0 .. MaxFacts}
Answers == UNION {[1 .. n -> FactLists] : n \in 0 .. MaxSections}

Range(seq) == {seq[i] : i \in DOMAIN seq}

\* fact_id_to_string holds the ids "1" .. "n" (planner_agent.py:142-145); an
\* entry that is no such id is kept as it is (planner_agent.py:190-199).
ConvertIds(answer, facts) ==
    [n \in DOMAIN answer |->
        [i \in DOMAIN answer[n] |->
            LET fid == answer[n][i] IN
            IF fid[1] = "id" /\ fid[2] \in DOMAIN facts THEN facts[fid[2]] ELSE fid]]

\* planned_facts: the fact lists of the sections, one after the other.
RECURSIVE PlannedFacts(_)
PlannedFacts(plan) ==
    IF plan = <<>> THEN <<>>
    ELSE PlannedFacts(SubSeq(plan, 1, Len(plan) - 1)) \o plan[Len(plan)]

\* _validate_document_plan: the missing facts and the duplicated ones; the
\* error message is empty when there are neither.
ReportsMissingOnly(plan, facts) ==
    [missing |-> Range(facts) \ Range(PlannedFacts(plan)), duplicates |-> {}]
_validate_document_plan(plan, facts) ==
    LET planned_facts == PlannedFacts(plan) IN
    [missing |-> Range(facts) \ Range(planned_facts),
     duplicates |-> {f \in Range(planned_facts) :
                       Cardinality({i \in DOMAIN planned_facts :
                                      planned_facts[i] = f}) > 1}]

\* The retry loop of plan_document has used its last pass.
Exhausted(a) == a.attempt + 1 >= PLAN_MAX_RETRIES

InitPlan ==
    /\ proc = "exited" /\ run = 1
    /\ cfg \in {c \in Scenarios : c.dispersion /\ c.files = Jobs /\ c.maxParallel = 1
                                   /\ c.unreadable = {}}
    /\ pc = [j \in Jobs |-> "done"]
    /\ outcome = [j \in Jobs |-> "none"]
    /\ attempt = [j \in Jobs |-> 0]
    /\ mem = [j \in Jobs |-> EmptyMem]
    /\ units = [j \in Jobs |-> NoUnits]
    /\ workQ = <<>>
    /\ disk = [j \in Jobs |-> EmptyDisk]
    /\ calls = [j \in Jobs |-> {}]
    /\ hits = [j \in Jobs |-> {}]
    /\ invoked = [j \in Jobs |-> 0]
    /\ prev = NoPrev
    /\ strategist = NoStrategist
    /\ gate = NoGate
    /\ namer = NoNamer
    /\ fan = NoFan
    /\ planner \in {[st |-> "call", facts |-> FactStrings(n), attempt |-> 0,
                     messages |-> Context0, plan |-> <<>>] : n \in 0 .. MaxFacts}

\* One pass of the loop in which call_llm returns and the answer parses
\* (planner_agent.py:184-210).  A rejected answer and the error message are
\* appended to messages; the list ends with the call of plan_document.
PlanAnswer ==
    /\ planner.st = "call"
    /\ \E answer \in Answers :
         LET plan == ConvertIds(answer, planner.facts)
             error_msg == _validate_document_plan(plan, planner.facts)
         IN
         IF error_msg.missing = {} /\ error_msg.duplicates = {}
         THEN planner' = [planner EXCEPT !.st = "returned", !.plan = plan,
                                         !.messages = <<>>]
         ELSE planner' = [planner EXCEPT
                            !.attempt = @ + 1,
                            !.messages = IF Exhausted(planner) THEN <<>>
                                         ELSE @ \o <<(<<"assistant", answer>>),
                                                     (<<"user", error_msg>>)>>,
                            !.st = IF Exhausted(planner) THEN "raised" ELSE @]
    /\ UNCHANGED <<pipeline, strategist, gate, namer, fan>>

\* One pass of the loop that ends in its except clause
\* (planner_agent.py:212-213).
PlanError ==
    /\ planner.st = "call"
    /\ planner' = [planner EXCEPT
                     !.attempt = @ + 1,
                     !.messages = IF Exhausted(planner) THEN <<>> ELSE @,
                     !.st = IF Exhausted(planner) THEN "raised" ELSE @]
    /\ UNCHANGED <<pipeline, strategist, gate, namer, fan>>

NextPlan == PlanAnswer \/ PlanError

SpecPlan == InitPlan /\ [][NextPlan]_vars

(***************************************************************************)
(* assign_strategies with its data (planner_agent.py:19-91, 260-305).      *)
(***************************************************************************)
MaxRows == 2        \* rows of a table

\* A table has the columns "k", "x" and "y"; its primary key is "k" or the
\* list ["k", "x"].  Row r has the value KeyValues[r] in "k", which makes
\* the key of a row unique.  A cell is a value or a one-element wrapper of
\* a value: the cells of "x" are values (empty, blank or a text), those of
\* "y" are wrappers (of the empty string or of a text).
Header == <<"k", "x", "y">>
KeyValues == [r \in 1 .. MaxRows |-> IF r = 1 THEN "a" ELSE "b" \o ToString(r)]
Values == {[wrapped |-> FALSE, v |-> t] : t \in {"", " ", "v"}}
Wrappers == {[wrapped |-> TRUE, v |-> t] : t \in {"", "v"}}
Row(r, x, y) == <<[wrapped |-> FALSE, v |-> KeyValues[r]], x, y>>
Tables ==
    {[header |-> Header, primary_key |-> pk,
      data |-> [r \in 1 .. n |-> Row(r, xs[r], ys[r])]] :
        pk \in {<<"k">>, <<"k", "x">>},
        n \in 0 .. MaxRows,
        xs \in [1 .. MaxRows -> Values],
        ys \in [1 .. MaxRows -> Wrappers]}

\* A table with a single key column and three more columns, every cell of
\* its two rows holding a text.
ExampleTable ==
    [header |-> <<"k", "x", "y", "w">>, primary_key |-> <<"k">>,
     data |-> [r \in 1 .. 2 |->
                 <<[wrapped |-> FALSE, v |-> KeyValues[r]],
                   [wrapped |-> FALSE, v |-> "v"],
                   [wrapped |-> TRUE, v |-> "v"],
                   [wrapped |-> FALSE, v |-> "v"]>>]]

\* header.index(name).
Index(header, name) ==
    CHOOSE i \in DOMAIN header :
        header[i] = name /\ \A k \in 1 .. (i - 1) : header[k] # name

\* sep.join(strings).
RECURSIVE Join(_, _)
Join(strings, sep) ==
    IF strings = <<>> THEN ""
    ELSE IF Len(strings) = 1 THEN strings[1]
    ELSE Join(SubSeq(strings, 1, Len(strings) - 1), sep) \o sep \o strings[Len(strings)]

\* _parse_table_header: the positions of the key columns; a primary key
\* that is one string is the list of that string here.
_parse_table_header(table_data) ==
    [k \in DOMAIN table_data.primary_key |->
        Index(table_data.header, table_data.primary_key[k])]

\* str(c[0]) of a wrapper, str(c) of a value.
FlatRow(row) == [i \in DOMAIN row |-> row[i].v]

\* val and str(val).strip().
StrippedAlways(val) == TRUE
Stripped(val) == val \notin {"", " "}

\* f"{row_pk},{col_name}".
CellKey(row_pk, col_name) == row_pk \o "," \o col_name

\* _get_nonempty_cells: the keys of the cells outside the key columns whose
\* text is not blank.
_get_nonempty_cells(table_data) ==
    LET pk_index == _parse_table_header(table_data) IN
    UNION {LET flat_row == FlatRow(table_data.data[r])
               row_pk == Join([k \in DOMAIN pk_index |-> flat_row[pk_index[k]]], ", ")
           IN
           {CellKey(row_pk, table_data.header[i]) :
               i \in {c \in DOMAIN table_data.header :
                        c \notin Range(pk_index) /\ Stripped(flat_row[c])}} :
           r \in DOMAIN table_data.data}

\* _validate_strategy_assignment: the cells that are expected and not
\* assigned; the error message is empty when there is none.
MissingNothing(assignment, table_data) == {}
_validate_strategy_assignment(assignment, table_data) ==
    _get_nonempty_cells(table_data) \ assignment

\* The keys of the rows of a table.
RowKeys(table_data) ==
    {Join([k \in DOMAIN _parse_table_header(table_data) |->
              FlatRow(table_data.data[r])[_parse_table_header(table_data)[k]]], ", ") :
        r \in DOMAIN table_data.data}

\* The answers of the generation service that parse: data["assignments"]
\* maps row keys to columns to strategies.  The rows it names are rows of
\* the table or the row "z", its columns are columns of the table.
StrategyAnswers(table_data) ==
    SUBSET ((RowKeys(table_data) \cup {"z"}) \X Range(table_data.header))

\* flat_assignments (planner_agent.py:56-60); the model keeps the keys of
\* the assignment and, in the field tagged, the keys whose list of
\* strategies is not empty.
FlatAssignments(answer) == {CellKey(e[1], e[2]) : e \in answer}

InitStrategy ==
    /\ proc = "exited" /\ run = 1
    /\ cfg \in {c \in Scenarios : c.dispersion /\ c.files = Jobs /\ c.maxParallel = 1
                                   /\ c.unreadable = {}}
    /\ pc = [j \in Jobs |-> "done"]
    /\ outcome = [j \in Jobs |-> "none"]
    /\ attempt = [j \in Jobs |-> 0]
    /\ mem = [j \in Jobs |-> EmptyMem]
    /\ units = [j \in Jobs |-> NoUnits]
    /\ workQ = <<>>
    /\ disk = [j \in Jobs |-> EmptyDisk]
    /\ calls = [j \in Jobs |-> {}]
    /\ hits = [j \in Jobs |-> {}]
    /\ invoked = [j \in Jobs |-> 0]
    /\ prev = NoPrev
    /\ planner = NoPlanner
    /\ gate = NoGate
    /\ namer = NoNamer
    /\ fan = NoFan
    /\ strategist \in {[st |-> "entry", enabled |-> e, table_data |-> t, attempt |-> 0,
                        messages |-> 2, assignment |-> {}, tagged |-> {},
                        llm_calls |-> 0, response |-> "none"] :
                         e \in BOOLEAN, t \in Tables \cup {ExampleTable}}

\* assign_strategies up to its loop (planner_agent.py:23-51).  With the
\* stage disabled it returns {cell_key: [] for cell_key in expected_cells}.
StrategyEntry ==
    /\ strategist.st = "entry"
    /\ strategist' =
         IF strategist.enabled
         THEN [strategist EXCEPT !.st = "call"]
         ELSE [strategist EXCEPT
                 !.st = "returned",
                 !.assignment = _get_nonempty_cells(strategist.table_data),
                 !.tagged = {}]
    /\ UNCHANGED <<pipeline, planner, gate, namer, fan>>

\* One pass of the loop in which call_llm returns and the answer parses
\* (planner_agent.py:53-71).  The lists of strategies of an answer are all
\* empty or all not.  The field response tells what the call of the pass
\* gave: "json" for an answer that parses, "text" for one that does not,
\* "none" when call_llm raised.
StrategyAnswer ==
    /\ strategist.st = "call"
    /\ \E answer \in StrategyAnswers(strategist.table_data) :
         LET assignment == FlatAssignments(answer)
             error_msg == _validate_strategy_assignment(assignment,
                                                        strategist.table_data)
         IN
         IF error_msg = {}
         THEN \E tagged \in {{}, assignment} :
                strategist' = [strategist EXCEPT !.st = "returned",
                                                 !.assignment = assignment,
                                                 !.tagged = tagged,
                                                 !.llm_calls = @ + 1,
                                                 !.response = "json"]
         ELSE strategist' = [strategist EXCEPT
                               !.attempt = @ + 1,
                               !.llm_calls = @ + 1,
                               !.response = "json",
                               !.messages = @ + 2,
                               !.st = IF Exhausted(strategist) THEN "raised" ELSE @]
    /\ UNCHANGED <<pipeline, planner, gate, namer, fan>>

\* One pass of the loop in which call_llm returns and parse_json, the
\* lookup of data["assignments"] or StrategyAssignment(...) raises
\* (planner_agent.py:55-61): the except clause logs and the loop goes on
\* (planner_agent.py:73-74).
StrategyUnparsed ==
    /\ strategist.st = "call"
    /\ strategist' = [strategist EXCEPT
                        !.attempt = @ + 1,
                        !.llm_calls = @ + 1,
                        !.response = "text",
                        !.st = IF Exhausted(strategist) THEN "raised" ELSE @]
    /\ UNCHANGED <<pipeline, planner, gate, namer, fan>>

\* One pass of the loop in which call_llm raises (planner_agent.py:55,
\* 73-74).
StrategyError ==
    /\ strategist.st = "call"
    /\ strategist' = [strategist EXCEPT
                        !.attempt = @ + 1,
                        !.llm_calls = @ + 1,
                        !.response = "none",
                        !.st = IF Exhausted(strategist) THEN "raised" ELSE @]
    /\ UNCHANGED <<pipeline, planner, gate, namer, fan>>

NextStrategy == StrategyEntry \/ StrategyAnswer \/ StrategyUnparsed \/ StrategyError

SpecStrategy == InitStrategy /\ [][NextStrategy]_vars

(***************************************************************************)
(* call_llm with its data (utils.py:54-87).                                *)
(***************************************************************************)
LLM_MAX_RETRIES == 3

\* What the completion endpoint answers when it answers: message.content is
\* any text, also an empty one or one that is no JSON.
Contents == {"", "{}", "text"}

\* The arguments of a call: the context, the model and json_mode.
Requests ==
    [messages : {Context0, Fed(Context0, 0)},
     model : {"PLANNER_MODEL", "REFINER_MODEL", "WRITER_MODEL", "VERIFIER_MODEL"},
     json_mode : BOOLEAN]

\* kwargs of client.chat.completions.create (utils.py:63-75).
Kwargs(request) ==
    [model |-> request.model, messages |-> request.messages,
     response_format |-> IF request.json_mode THEN "json_object" ELSE "none"]

RECURSIVE Pow2(_)
Pow2(n) == IF n = 0 THEN 1 ELSE 2 * Pow2(n - 1)

\* The test after a failed attempt (utils.py:84).
GivesUpAtOnce(retries) == TRUE
GivesUp(retries) == retries >= LLM_MAX_RETRIES

InitCall ==
    /\ proc = "exited" /\ run = 1
    /\ cfg \in {c \in Scenarios : c.dispersion /\ c.files = Jobs /\ c.maxParallel = 1
                                   /\ c.unreadable = {}}
    /\ pc = [j \in Jobs |-> "done"]
    /\ outcome = [j \in Jobs |-> "none"]
    /\ attempt = [j \in Jobs |-> 0]
    /\ mem = [j \in Jobs |-> EmptyMem]
    /\ units = [j \in Jobs |-> NoUnits]
    /\ workQ = <<>>
    /\ disk = [j \in Jobs |-> EmptyDisk]
    /\ calls = [j \in Jobs |-> {}]
    /\ hits = [j \in Jobs |-> {}]
    /\ invoked = [j \in Jobs |-> 0]
    /\ prev = NoPrev
    /\ planner = NoPlanner
    /\ strategist = NoStrategist
    /\ namer = NoNamer
    /\ fan = NoFan
    /\ gate \in {[st |-> "loop", request |-> r, retries |-> 0, sent |-> <<>>,
                  slept |-> <<>>, result |-> "none"] : r \in Requests}

\* The head of the while loop and the request (utils.py:61-77).  sent is the
\* record of the requests made, each with how it ended.
CallAnswered ==
    /\ gate.st = "loop"
    /\ gate.retries < LLM_MAX_RETRIES
    /\ \E content \in Contents :
         gate' = [gate EXCEPT
                    !.st = "returned",
                    !.sent = Append(@, [kwargs |-> Kwargs(gate.request),
                                        content |-> content, failed |-> FALSE]),
                    !.result = content]
    /\ UNCHANGED <<pipeline, planner, strategist, namer, fan>>

\* The request raises (utils.py:81-87): the failure is counted, and it is
\* raised again or the thread sleeps.
CallFailed ==
    /\ gate.st = "loop"
    /\ gate.retries < LLM_MAX_RETRIES
    /\ LET retries == gate.retries + 1 IN
       gate' = [gate EXCEPT
                  !.retries = retries,
                  !.sent = Append(@, [kwargs |-> Kwargs(gate.request),
                                      content |-> "", failed |-> TRUE]),
                  !.st = IF GivesUp(retries) THEN "raised" ELSE "sleep"]
    /\ UNCHANGED <<pipeline, planner, strategist, namer, fan>>

\* time.sleep(2 ** retries) returns.
CallWakes ==
    /\ gate.st = "sleep"
    /\ gate' = [gate EXCEPT !.st = "loop", !.slept = Append(@, Pow2(gate.retries))]
    /\ UNCHANGED <<pipeline, planner, strategist, namer, fan>>

NextCall == CallAnswered \/ CallFailed \/ CallWakes

SpecCall == InitCall /\ [][NextCall]_vars

(***************************************************************************)
(* The names of the files of a job: the output directory of an input file  *)
(* (main.py:27-30), the cache key of a cell (utils.py:123-127,             *)
(* refiner_agent.py:73) and the cache file of a section (main.py:151).     *)
(* A text is the sequence of its parts.                                    *)
(***************************************************************************)
MaxName == 2        \* parts of a file name before its last ".json"
MaxKey == 2         \* characters of the row key in a cell key

max_length == 100

\* The parts of a file name: a letter, or the substring ".json".  The
\* letters are none of ".json", so ".json" occurs in a name exactly where
\* it is a part.
NameParts == {"a", "b", ".json"}

\* os.listdir(config.INPUT_PATH), filtered by f.endswith('.json')
\* (main.py:294).
FileNames ==
    {n \o <<".json">> : n \in UNION {[1 .. k -> NameParts] : k \in 0 .. MaxName}}

\* filename.replace('.json', '') (main.py:28): every occurrence goes.
TaskName(filename) == SelectSeq(filename, LAMBDA part : part # ".json")

\* os.path.join(config.OUTPUT_PATH, task_name) (main.py:29).
OutputDir(filename) == <<"document", TaskName(filename)>>

\* The paths process_task uses under an output directory: the stage
\* artifacts, the copy of the table, the final artifact and the cache
\* directory with all it holds.
JobPaths(output_dir) ==
    {Append(output_dir, n) :
        n \in {"raw_table.json", "strategy_assignment.json", "fact_guidance.json",
               "document_plan.json", "final_document.md", "cache"}}

\* The characters of a row key, and the cell keys f"{pk},{col}" of the
\* column "x" (planner_agent.py:302).
KeyChars == {"a", " ", "_", ":"}
CellKeys ==
    {pk \o <<",", "x">> : pk \in UNION {[1 .. k -> KeyChars] : k \in 1 .. MaxKey}}

\* re.sub(r'[\\/*?:"<>|]', "", text), text.replace(' ', '_') and
\* text[:max_length] (utils.py:125-127).
Unsafe == {"\\", "/", "*", "?", ":", "\"", "<", ">", "|"}
safe_filename(text) ==
    LET kept == SelectSeq(text, LAMBDA c : c \notin Unsafe)
        under == [i \in DOMAIN kept |-> IF kept[i] = " " THEN "_" ELSE kept[i]]
    IN
    SubSeq(under, 1, IF Len(under) < max_length THEN Len(under) ELSE max_length)

\* f"section_{section_plan.section_id}.json" in the cache directory
\* (main.py:151, 205).
SectionFile(section_id) == <<"cache", "section", section_id>>

\* The inputs: two files of the input directory, or two cells of a strategy
\* assignment, or the ids of the first two sections of an accepted plan
\* (the ids are the generator's, and nothing compares them).
InitNames ==
    /\ proc = "exited" /\ run = 1
    /\ cfg \in {c \in Scenarios : c.dispersion /\ c.files = Jobs /\ c.maxParallel = 1
                                   /\ c.unreadable = {}}
    /\ pc = [j \in Jobs |-> "done"]
    /\ outcome = [j \in Jobs |-> "none"]
    /\ attempt = [j \in Jobs |-> 0]
    /\ mem = [j \in Jobs |-> EmptyMem]
    /\ units = [j \in Jobs |-> NoUnits]
    /\ workQ = <<>>
    /\ disk = [j \in Jobs |-> EmptyDisk]
    /\ calls = [j \in Jobs |-> {}]
    /\ hits = [j \in Jobs |-> {}]
    /\ invoked = [j \in Jobs |-> 0]
    /\ prev = NoPrev
    /\ planner = NoPlanner
    /\ strategist = NoStrategist
    /\ gate = NoGate
    /\ fan = NoFan
    /\ namer \in
         {[st |-> "files", input |-> <<f, g>>, output |-> <<>>] :
             f \in FileNames, g \in FileNames} \cup
         {[st |-> "cells", input |-> <<c, d>>, output |-> <<>>] :
             c \in CellKeys, d \in CellKeys} \cup
         {[st |-> "sections", input |-> ids, output |-> <<>>] :
             ids \in [1 .. 2 -> SectionIds]}
    /\ namer.st \in {"files", "cells"} => namer.input[1] # namer.input[2]

\* process_task derives the output directory of each file.
TaskPaths ==
    /\ namer.st = "files"
    /\ namer' = [namer EXCEPT !.st = "dirs",
                               !.output = [n \in 1 .. 2 |-> OutputDir(namer.input[n])]]
    /\ UNCHANGED <<pipeline, planner, strategist, gate, fan>>

\* refine_all_cells derives the cache key of each cell.
CacheKeys ==
    /\ namer.st = "cells"
    /\ namer' = [namer EXCEPT !.st = "keys",
                               !.output = [n \in 1 .. 2 |-> safe_filename(namer.input[n])]]
    /\ UNCHANGED <<pipeline, planner, strategist, gate, fan>>

\* process_task derives the cache path of each section.
SectionPaths ==
    /\ namer.st = "sections"
    /\ namer' = [namer EXCEPT !.st = "paths",
                               !.output = [n \in 1 .. 2 |-> SectionFile(namer.input[n])]]
    /\ UNCHANGED <<pipeline, planner, strategist, gate, fan>>

NextNames == TaskPaths \/ CacheKeys \/ SectionPaths

SpecNames == InitNames /\ [][NextNames]_vars

(***************************************************************************)
(* The as_completed loops that put the results of a fan-out together:      *)
(* the fact list (refiner_agent.py:84-92), the section list                *)
(* (main.py:147-179) and the document of a round (main.py:211-218).  Work  *)
(* item i is the i-th one submitted; the loop takes the items in the order *)
(* in which they complete.                                                 *)
(***************************************************************************)
MaxFan == 3         \* work items of a fan-out

\* The loop before its first pass.  results[i] says whether item i returns
\* a record (a fact guidance, a Section) or none (None, an exception);
\* ids[i] is the section_id of the i-th section of the document, whose
\* sections are the objects 1 .. n in this order.
FanStart(kind, results, ids) ==
    [st |-> "collect", kind |-> kind, results |-> results, ids |-> ids,
     left |-> DOMAIN results,
     out |-> CASE kind = "refine" -> <<>>
               [] kind = "write" -> [i \in DOMAIN results |-> 0]
               [] kind = "round" -> [i \in DOMAIN results |-> i]]

\* One pass of the loop, for the item i that completed.
\* refine: if result: fact_list.append(result).
\* write: sections[idx] = section, unless future.result() raised.
\* round: the updated section goes to the first position whose section has
\* its section_id.
Take(f, i) ==
    CASE f.kind = "refine" -> IF f.results[i] THEN Append(f.out, i) ELSE f.out
      [] f.kind = "write" -> [f.out EXCEPT ![i] = IF f.results[i] THEN i ELSE 0]
      [] f.kind = "round" ->
           LET idx == CHOOSE p \in DOMAIN f.out :
                          /\ f.ids[f.out[p]] = f.ids[i]
                          /\ \A q \in 1 .. (p - 1) : f.ids[f.out[q]] # f.ids[i]
           IN
           [f.out EXCEPT ![idx] = i]

\* After the loop: sections = [s for s in sections if s is not None].
Filtered(f) ==
    IF f.kind = "write" THEN SelectSeq(f.out, LAMBDA x : x # 0) ELSE f.out

InitFan ==
    /\ proc = "exited" /\ run = 1
    /\ cfg \in {c \in Scenarios : c.dispersion /\ c.files = Jobs /\ c.maxParallel = 1
                                   /\ c.unreadable = {}}
    /\ pc = [j \in Jobs |-> "done"]
    /\ outcome = [j \in Jobs |-> "none"]
    /\ attempt = [j \in Jobs |-> 0]
    /\ mem = [j \in Jobs |-> EmptyMem]
    /\ units = [j \in Jobs |-> NoUnits]
    /\ workQ = <<>>
    /\ disk = [j \in Jobs |-> EmptyDisk]
    /\ calls = [j \in Jobs |-> {}]
    /\ hits = [j \in Jobs |-> {}]
    /\ invoked = [j \in Jobs |-> 0]
    /\ prev = NoPrev
    /\ planner = NoPlanner
    /\ strategist = NoStrategist
    /\ gate = NoGate
    /\ namer = NoNamer
    /\ \E n \in 0 .. MaxFan :
         \/ \E kind \in {"refine", "write"}, results \in [1 .. n -> BOOLEAN] :
              fan = FanStart(kind, results, [i \in 1 .. n |-> i - 1])
         \/ \E ids \in [1 .. n -> 0 .. (MaxFan - 1)] :
              fan = FanStart("round", [i \in 1 .. n |-> TRUE], ids)

\* for future in as_completed(futures) in refine_all_cells.
CollectFact ==
    /\ fan.st = "collect" /\ fan.kind = "refine"
    /\ \E i \in fan.left : fan' = [fan EXCEPT !.out = Take(fan, i), !.left = @ \ {i}]
    /\ UNCHANGED <<pipeline, planner, strategist, gate, namer>>

\* for future in as_completed(futures) in the write stage.
CollectSection ==
    /\ fan.st = "collect" /\ fan.kind = "write"
    /\ \E i \in fan.left : fan' = [fan EXCEPT !.out = Take(fan, i), !.left = @ \ {i}]
    /\ UNCHANGED <<pipeline, planner, strategist, gate, namer>>

\* for future in as_completed(futures) in a round of verify and repair.
CollectUpdate ==
    /\ fan.st = "collect" /\ fan.kind = "round"
    /\ \E i \in fan.left : fan' = [fan EXCEPT !.out = Take(fan, i), !.left = @ \ {i}]
    /\ UNCHANGED <<pipeline, planner, strategist, gate, namer>>

\* The loop has taken every item.
FanEnds ==
    /\ fan.st = "collect" /\ fan.left = {}
    /\ fan' = [fan EXCEPT !.st = "done", !.out = Filtered(fan)]
    /\ UNCHANGED <<pipeline, planner, strategist, gate, namer>>

NextFan == CollectFact \/ CollectSection \/ CollectUpdate \/ FanEnds

SpecFan == InitFan /\ [][NextFan]_vars

(***************************************************************************)
(* Properties of the pipeline.                                             *)
(***************************************************************************)
\* The section objects of the job's document, in order.
DocSections(j) == [p \in DOMAIN mem[j].doc |-> mem[j].objs[mem[j].doc[p]]]

\* The text the synthesis writes for the job's document.
DocBody(j) == [p \in DOMAIN mem[j].doc |-> DocSections(j)[p].content]

\* C1: at every moment the number of generation calls in flight in the whole
\* process, those of every job and of every stage, is at most
\* MAX_CONCURRENT_REQUESTS.
C1_GlobalCallBound == InFlight <= MAX_CONCURRENT_REQUESTS

\* C2: every step that creates or extends final_document.md is taken while
\* every section of the job's document is verified, and a job that returned
\* as failed or as incomplete has no final artifact.
C2_CommitOnlyIfAllVerified ==
    [][\A j \in Jobs :
         /\ disk'[j].final # disk[j].final =>
              pc[j] \in {"assemble", "commit"} /\ AllVerified(j)
         /\ outcome'[j] \in {"failed", "incomplete"} => ~disk'[j].final.exists]_vars

C2_Witness ==
    \E j \in Jobs :
        /\ outcome[j] = "committed"
        /\ Len(disk[j].final.body) = MaxSections

\* The latest content of section object o of job j can be read back from
\* the job's section cache.
Retrievable(j, o) ==
    LET f == disk[j].sec[mem[j].objs[o].id] IN
    f.st = "ok" /\ f.val.content = mem[j].objs[o].content

\* C3: when the verify / repair rounds of a job are over, at most
\* VERIFY_AND_REPAIR_MAX_RETRIES rounds were run, and either every section of
\* the document is verified, or there is no final artifact and the latest
\* content of every section of the document is in the section cache.
C3_ConvergenceOrHonestFailure ==
    \A j \in Jobs :
        pc[j] = "assemble" =>
            /\ attempt[j] <= VERIFY_AND_REPAIR_MAX_RETRIES
            /\ \/ AllVerified(j)
               \/ /\ ~disk[j].final.exists
                  /\ \A p \in DOMAIN mem[j].doc : Retrievable(j, mem[j].doc[p])

\* C4: in every plan that plan_document returns, every input fact is in the
\* fact list of exactly one section and occurs once in it, and the fact
\* lists hold no string that is not an input fact.
C4_PartitionInvariant ==
    planner.st = "returned" =>
        LET planned == PlannedFacts(planner.plan) IN
        /\ \A f \in Range(planner.facts) :
             Cardinality({i \in DOMAIN planned : planned[i] = f}) = 1
        /\ Range(planned) \subseteq Range(planner.facts)

\* The cells of a table outside its key columns that hold a text that is
\* not blank, as <<row, column>> positions.
CellsToCover(table_data) ==
    {e \in (DOMAIN table_data.data) \X (DOMAIN table_data.header) :
        /\ table_data.header[e[2]] \notin Range(table_data.primary_key)
        /\ table_data.data[e[1]][e[2]].v \notin {"", " "}}

\* The key "pk,attr" of the cell at a position.
KeyOfCell(table_data, e) ==
    CellKey(Join([k \in DOMAIN table_data.primary_key |->
                    table_data.data[e[1]][Index(table_data.header,
                                                table_data.primary_key[k])].v],
                 ", "),
            table_data.header[e[2]])

\* C5: in every assignment that assign_strategies returns, every cell of
\* the table that is outside the key columns and not empty is a key (a
\* dictionary holds a key once).
C5_CellCoverage ==
    strategist.st = "returned" =>
        \A e \in CellsToCover(strategist.table_data) :
            KeyOfCell(strategist.table_data, e) \in strategist.assignment

C5_Witness ==
    /\ strategist.st = "returned"
    /\ strategist.enabled
    /\ strategist.attempt > 0
    /\ Cardinality(CellsToCover(strategist.table_data)) = 2 * MaxRows
    /\ Cardinality(strategist.assignment) > 2 * MaxRows

\* The generation calls a loadable artifact stands for.
Regenerates(k) ==
    CASE k[1] = "fact_guidance" ->
           {<<"cellg", c>> : c \in Cells} \cup {<<"factg", c>> : c \in Cells}
      [] k[1] = "factg" -> {<<"cellg", k[2]>>, <<"factg", k[2]>>}
      [] OTHER -> {k}

\* The record a job or unit holds right after the step that loaded the
\* artifact of key k, against the artifact as the step found it.
LoadedIsUsed(j, k) ==
    CASE k[1] = "strategy" -> mem'[j].strat = disk[j].strat.val
      [] k[1] = "fact_guidance" -> mem'[j].facts = disk[j].facts.val
      [] k[1] = "plan" -> mem'[j].plan = disk[j].plan.val
      [] k[1] = "section" ->
           mem'[j].objs[k[2]] = disk[j].sec[units[j][k[2]].sid].val
      [] k[1] = "factg" ->
           \A i \in UnitIds :
               units[j][i].kind = "cell" /\ units[j][i].tgt = k[2]
                   => units'[j][i].fact = disk[j].factg[k[2]].val
      [] k[1] = "cellg" ->
           \A i \in UnitIds :
               /\ units[j][i].kind = "cell" /\ units[j][i].tgt = k[2]
               /\ <<"factg", k[2]>> \notin hits'[j]
               => units'[j][i].g = disk[j].cellg[k[2]].val

\* C6: an artifact of a stage or of a unit that was loadable when the stage
\* or unit began has none of its generation calls invoked in that run, and
\* the record the job or unit takes up is the one the artifact held.
C6_CacheHitShortCircuit ==
    [][\A j \in Jobs :
          /\ \A k \in hits'[j] : Regenerates(k) \cap calls'[j] = {}
          /\ \A k \in hits'[j] \ hits[j] : LoadedIsUsed(j, k)]_vars

C6_Witness ==
    \E j \in Jobs :
        /\ {<<"strategy", 0>>, <<"fact_guidance", 0>>, <<"plan", 0>>,
            <<"section", 1>>} \subseteq hits[j]
        /\ outcome[j] = "committed"

\* C7, with the condition it rests on: in a run that follows another on the
\* same directories, a job whose final artifact the earlier run left makes
\* no generation call, loads no cache artifact and leaves the final artifact
\* as it was.
C7_ResumeOfCommittedJob ==
    \A j \in Jobs :
        run > 1 /\ prev.final[j].exists =>
            /\ calls[j] = {}
            /\ hits[j] = {}
            /\ disk[j].final = prev.final[j]

\* C7 as the specification states it: in a run that follows a run that
\* returned, on the same directories, no job makes a generation call and
\* every final artifact is as the earlier run left it.
C7_IdempotentResume ==
    \A j \in cfg.files :
        run > 1 /\ prev.exited =>
            /\ calls[j] = {}
            /\ disk[j].final = prev.final[j]

C7_Witness ==
    /\ proc = "exited"
    /\ run = 2
    /\ \E j \in Jobs :
         /\ outcome[j] = "skipped"
         /\ prev.exited
         /\ Len(prev.final[j].body) = MaxSections
         /\ disk[j].final = prev.final[j]

\* C8: the step in which process_task starts on a job whose final artifact
\* exists returns at once; it invokes no generation call, submits no unit
\* and changes no file, and nothing of the job changes later in the run.
C8_SkipCompletedJob ==
    [][\A j \in Jobs :
         /\ invoked'[j] > invoked[j] /\ disk[j].final.exists =>
              /\ pc'[j] = "done" /\ outcome'[j] = "skipped"
              /\ calls' = calls /\ units' = units /\ workQ' = workQ
              /\ disk'[j] = disk[j]
         /\ outcome[j] = "skipped" /\ run' = run =>
              /\ disk'[j] = disk[j]
              /\ calls'[j] = {} /\ units'[j] = NoUnits]_vars

C8_Witness ==
    \E j \in Jobs :
        /\ outcome[j] = "skipped"
        /\ disk[j].final.exists
        /\ calls[j] = {}

\* C9: the step that deletes the job's cache directory is taken only when
\* the final artifact holds the text of every section of the document, and
\* every step that writes the final artifact leaves the cache directory in
\* place; so also in the state a kill leaves behind.
C9_CacheDeletedAfterCommit ==
    [][\A j \in Jobs :
         /\ disk[j].cacheDir /\ ~disk'[j].cacheDir =>
              /\ pc[j] = "commit"
              /\ disk[j].final.exists
              /\ disk[j].final.body = DocBody(j)
         /\ disk'[j].final # disk[j].final => disk'[j].cacheDir]_vars

C9_Witness ==
    \E j \in Jobs :
        /\ outcome[j] = "committed"
        /\ ~disk[j].cacheDir
        /\ Len(disk[j].final.body) = MaxSections

\* C10: at most MAX_PARALLEL_TASK jobs are inside process_task, no input file
\* is handed to process_task twice in a run, and when main() returns every
\* input file was handed to it once.
C10_JobPool ==
    /\ Cardinality(Executing) <= MAX_PARALLEL_TASK
    /\ \A j \in Jobs :
         /\ invoked[j] <= 1
         /\ j \notin cfg.files => invoked[j] = 0
         /\ proc = "exited" /\ j \in cfg.files => invoked[j] = 1

C10_Witness ==
    /\ Cardinality(Executing) = MAX_PARALLEL_TASK
    /\ \E j \in cfg.files : pc[j] = "queued" /\ invoked[j] = 0
    /\ \E j \in cfg.files : pc[j] \notin {"queued", "done"} /\ invoked[j] = 1

\* The ways process_task returns.
Terminal == {"committed", "incomplete", "failed", "skipped"}

\* Everything of job k: its thread, its locals, its work items with their
\* places in the queue of the pool, and its output directory.
JobState(k) ==
    <<pc[k], outcome[k], attempt[k], mem[k], units[k], disk[k], calls[k],
      invoked[k], SelectSeq(workQ, LAMBDA e : e[1] = k)>>

\* The process takes a step other than being killed.
Advance == Next /\ proc' # "crashed"

\* C11: the step in which a job fails (its table does not load, a stage
\* raises, a work item raises) changes nothing of any other job; while the
\* process runs it can always take a step, so a job that has not returned
\* is never left waiting for one that failed; and when main() returns every
\* input file has gone through process_task once and returned as committed,
\* incomplete, failed or skipped.
C11_JobIsolation ==
    /\ [](proc = "running" => ENABLED Advance)
    /\ [][/\ \A j \in Jobs :
               outcome'[j] = "failed" /\ outcome[j] # "failed" =>
                   \A k \in Jobs \ {j} : JobState(k)' = JobState(k)
          /\ proc' = "exited" =>
               \A k \in cfg.files : outcome'[k] \in Terminal /\ invoked'[k] = 1]_vars

C11_Witness ==
    /\ proc = "exited"
    /\ \E j, k \in cfg.files :
         /\ outcome[j] = "failed" /\ outcome[k] = "committed"
         /\ disk[k].final.exists /\ ~disk[j].final.exists

\* The states of a work item inside the retry loop of the cell guidance and
\* inside the one of the fact splitting.
GuidanceLoop == {"gen", "check"}
SplitLoop == {"fgen", "fcheck"}

\* Work item u steps to v by using the last pass of its retry loop without
\* an accepted record.
LoopExhausted(u, v) ==
    /\ u.st \in GuidanceLoop \cup SplitLoop
    /\ v.st = "done"
    /\ v.att = REFINE_MAX_RETRIES

\* C12: a retry loop calls the generator in at most the configured number
\* of passes; the step that uses the last pass without an accepted record
\* raises to the caller and stores no record; and the caller then leaves
\* process_task as failed instead of trying the unit again.
C12_ExhaustionIsFatal ==
    [][\A j \in Jobs :
          /\ pc'[j] \in {"strat_call", "plan_call"} => attempt'[j] < PLAN_MAX_RETRIES
          /\ pc[j] \in {"strat_call", "plan_call"}
               /\ pc'[j] # pc[j] /\ disk'[j] = disk[j] /\ proc' = "running"
               => outcome'[j] = "failed" /\ attempt[j] + 1 = PLAN_MAX_RETRIES
          /\ \A i \in UnitIds :
               LET u == units[j][i]
                   v == units'[j][i]
               IN
               /\ v.st \in GuidanceLoop \cup SplitLoop => v.att < REFINE_MAX_RETRIES
               /\ LoopExhausted(u, v) => v.res = "raised" /\ disk'[j] = disk[j]
               /\ pc[j] = "refine_join" /\ proc' = "running"
                    /\ u.att = REFINE_MAX_RETRIES /\ u.res # "none" /\ v.res = "none"
                    => outcome'[j] = "failed"]_vars

\* a is a prefix of b.
IsPrefix(a, b) == Len(a) <= Len(b) /\ SubSeq(b, 1, Len(a)) = a

\* C13: from one generation call of a retry loop to the next one of the
\* same loop the context only grows at its end: what the earlier call was
\* given is a prefix of what the later call is given.
C13_AppendOnlyContext ==
    [][\A j \in Jobs, i \in UnitIds :
          LET u == units[j][i]
              v == units'[j][i]
          IN
          \/ u.st \in GuidanceLoop /\ v.st \in GuidanceLoop
          \/ u.st \in SplitLoop /\ v.st \in SplitLoop
          => IsPrefix(u.messages, v.messages)]_vars

\* C14: call_llm sends at most LLM_MAX_RETRIES requests, each one only after
\* the one before it failed; it returns the content of the first request
\* that is answered, whatever that content is; and it raises only when
\* LLM_MAX_RETRIES requests in a row have failed.
C14_GateRetries ==
    /\ Len(gate.sent) <= LLM_MAX_RETRIES
    /\ \A n \in 1 .. (Len(gate.sent) - 1) : gate.sent[n].failed
    /\ gate.st \in {"loop", "sleep"} =>
         \A n \in DOMAIN gate.sent : gate.sent[n].failed
    /\ gate.st = "returned" =>
         /\ ~gate.sent[Len(gate.sent)].failed
         /\ gate.result = gate.sent[Len(gate.sent)].content
         /\ gate.result \in Contents
    /\ gate.st = "raised" =>
         /\ Len(gate.sent) = LLM_MAX_RETRIES
         /\ \A n \in DOMAIN gate.sent : gate.sent[n].failed

C14_Witness ==
    /\ gate.st = "returned"
    /\ Len(gate.sent) = LLM_MAX_RETRIES
    /\ gate.slept = <<2, 4>>
    /\ gate.request.json_mode /\ gate.result = "text"

\* The thread of job j takes a step of process_task.
Moves(j) == pc'[j] # pc[j] /\ proc' = "running" /\ run' = run

\* C15: a stage or a work item that finds its artifact present and not
\* deserializable does not fail for it and regenerates the record (it goes
\* to the generation call, or builds the record where none is called for),
\* and the step that ends a regeneration with a record leaves that record
\* in the artifact.
C15_CorruptIsMiss ==
    [][\A j \in Jobs :
          /\ pc[j] = "strategize" /\ disk[j].strat.st = "corrupt" /\ Moves(j) =>
               \/ pc'[j] = "strat_call" /\ <<"strategy", 0>> \in calls'[j]
               \/ ~ENABLE_STRATEGY_ASSIGNMENT /\ disk'[j].strat.st = "ok"
          /\ pc[j] = "strat_call" /\ pc'[j] = "refine" =>
               disk'[j].strat = File("ok", mem'[j].strat)
          /\ pc[j] = "refine" /\ disk[j].facts.st = "corrupt" /\ Moves(j) =>
               /\ pc'[j] = "refine_join"
               /\ \A c \in Cells : \E i \in UnitIds :
                    units'[j][i].kind = "cell" /\ units'[j][i].tgt = c
          /\ pc[j] = "refine_join" /\ pc'[j] = "plan" =>
               disk'[j].facts = File("ok", mem'[j].facts)
          /\ pc[j] = "plan" /\ disk[j].plan.st = "corrupt" /\ Moves(j) =>
               pc'[j] = "plan_call" /\ <<"plan", 0>> \in calls'[j]
          /\ pc[j] = "plan_call" /\ pc'[j] = "write" =>
               disk'[j].plan = File("ok", mem'[j].plan)
          /\ \A i \in UnitIds :
               LET u == units[j][i]
                   v == units'[j][i]
                   started == u.st = "queued" /\ v.st # "queued" /\ proc' = "running"
               IN
               /\ u.kind = "cell" /\ started /\ disk[j].factg[u.tgt].st = "corrupt" =>
                    /\ v.res # "raised"
                    /\ v.st \in {"gen", "fgen"} \/ disk'[j].factg[u.tgt] = File("ok", v.fact)
               /\ u.kind = "cell" /\ started /\ disk[j].cellg[u.tgt].st = "corrupt"
                    /\ disk[j].factg[u.tgt].st # "ok" =>
                    \/ v.st = "gen" /\ <<"cellg", u.tgt>> \in calls'[j]
                    \/ u.tag = "none" /\ disk'[j].cellg[u.tgt].st = "ok"
               /\ u.st = "check" /\ v.st \in {"fgen", "done"} /\ v.res # "raised" =>
                    disk'[j].cellg[u.tgt] = File("ok", v.g)
               /\ u.st \in {"fgen", "fcheck"} /\ v.st = "done" /\ v.res = "ok" =>
                    disk'[j].factg[u.tgt] = File("ok", v.fact)
               /\ u.kind = "write" /\ started /\ disk[j].sec[u.sid].st = "corrupt" =>
                    v.st = "wcall" /\ <<"section", i>> \in calls'[j]
               /\ u.st = "wcall" /\ v.st = "done" /\ v.res = "ok" =>
                    disk'[j].sec[u.sid] = File("ok", mem'[j].objs[i])]_vars

C15_Witness ==
    \E j \in Jobs, i \in UnitIds :
        /\ run > 1
        /\ units[j][i].kind = "write" /\ units[j][i].st = "wcall"
        /\ disk[j].sec[units[j][i].sid].st = "corrupt"
        /\ {<<"strategy", 0>>, <<"fact_guidance", 0>>, <<"plan", 0>>} \subseteq hits[j]

\* C16: the step in which a repair returns a text leaves the section
\* unverified with that text, in memory and in its cache artifact; the step
\* in which a verification passes leaves the section verified with the
\* text it had, in memory and in its cache artifact; a verified section of
\* a job in its rounds is not changed again; and when the rounds are over
\* the cache artifact of every verified section of the document holds that
\* section.  So a section that is repaired and then passes ends verified
\* with the repaired text, and so does section_<id>.json.
C16_RepairThenVerify ==
    [][\A j \in Jobs :
          /\ \A i \in UnitIds :
               LET u == units[j][i]
                   v == units'[j][i]
                   o == u.tgt
                   old == mem[j].objs[o]
                   new == mem'[j].objs[o]
               IN
               /\ u.st = "repair" /\ v.st = "done" /\ new.content # old.content =>
                    /\ new = [id |-> old.id, verified |-> FALSE,
                              content |-> [w |-> o, v |-> old.content.v + 1]]
                    /\ disk'[j].sec[old.id] = File("ok", new)
               /\ u.st = "verify" /\ v.st = "done" /\ v.res = "ok" =>
                    /\ new = [id |-> old.id, verified |-> TRUE, content |-> old.content]
                    /\ disk'[j].sec[old.id] = File("ok", new)
          /\ \A o \in UnitIds :
               /\ pc[j] \in {"round", "round_join"} /\ pc'[j] \in {"round", "round_join", "assemble"}
               /\ mem[j].objs[o].verified
               => mem'[j].objs[o] = mem[j].objs[o]
          /\ pc'[j] = "assemble" =>
               \A p \in DOMAIN mem'[j].doc :
                   LET s == mem'[j].objs[mem'[j].doc[p]] IN
                   s.verified => disk'[j].sec[s.id] = File("ok", s)]_vars

(***************************************************************************)
(* C17.  Every section that enters the verify/repair loop from the Write   *)
(* stage, freshly written or loaded from its cache artifact, enters with   *)
(* verified = false: when the first round is about to start, no section   *)
(* of the document is verified.                                            *)
(***************************************************************************)
C17_EntersUnverified ==
    \A j \in Jobs :
        pc[j] = "round" /\ attempt[j] = 0 =>
            \A p \in DOMAIN mem[j].doc : ~mem[j].objs[mem[j].doc[p]].verified

\* C17 as amended: a freshly written section enters unverified, and a
\* section loaded from its cache artifact enters with the flag the artifact
\* stores; the Write stage changes neither before the first round.
C17_EntersAsStored ==
    [][\A j \in Jobs :
          /\ \A i \in UnitIds :
               LET u == units[j][i]
                   v == units'[j][i]
               IN
               u.kind = "write" /\ u.st # "done" /\ v.st = "done" /\ v.res = "ok" =>
                   IF u.st = "queued"
                   THEN mem'[j].objs[i].verified = disk[j].sec[u.sid].val.verified
                   ELSE ~mem'[j].objs[i].verified
          /\ pc[j] = "write_join" /\ proc' = "running" =>
               /\ \A i \in UnitIds :
                    units[j][i].st = "done" => mem'[j].objs[i] = mem[j].objs[i]
               /\ pc'[j] = "round" =>
                    /\ attempt'[j] = 0
                    /\ \A p \in DOMAIN mem'[j].doc :
                         units[j][mem'[j].doc[p]].res = "ok"]_vars

\* A second run is about to start its first round with a section that was
\* loaded verified next to one that is not.
C17_Witness ==
    \E j \in Jobs :
        /\ run = 2 /\ pc[j] = "round" /\ attempt[j] = 0
        /\ \E p, q \in DOMAIN mem[j].doc :
             /\ mem[j].objs[mem[j].doc[p]].verified
             /\ ~mem[j].objs[mem[j].doc[q]].verified

(***************************************************************************)
(* C18.  With the strategize stage disabled, assign_strategies makes no    *)
(* generation call and returns an assignment whose keys are exactly the    *)
(* keys of the cells outside the key columns that are not empty, every one *)
(* with an empty list of strategies; for the table of two rows with one    *)
(* key column and three other columns, all filled, these are six entries.  *)
(***************************************************************************)
C18_DisabledStrategize ==
    ~strategist.enabled /\ strategist.st # "idle" =>
        /\ strategist.st \in {"entry", "returned"}
        /\ strategist.llm_calls = 0
        /\ strategist.st = "returned" =>
             /\ strategist.assignment =
                  {KeyOfCell(strategist.table_data, e) :
                      e \in CellsToCover(strategist.table_data)}
             /\ strategist.tagged = {}
             /\ strategist.table_data = ExampleTable =>
                  Cardinality(strategist.assignment) = 6

C18_Witness ==
    /\ ~strategist.enabled /\ strategist.st = "returned"
    /\ strategist.table_data = ExampleTable
    /\ strategist.assignment =
         {"a,x", "a,y", "a,w", "b2,x", "b2,y", "b2,w"}

\* The <<section, place>> positions of a plan that hold the string f.
Places(plan, f) ==
    {e \in (DOMAIN plan) \X (1 .. MaxFacts) :
        e[2] \in DOMAIN plan[e[1]] /\ plan[e[1]][e[2]] = f}

\* The input facts that no section of the plan holds, and the strings that
\* the plan holds at more than one position.
MissingFacts(plan, facts) == {f \in Range(facts) : Places(plan, f) = {}}
DuplicatedFacts(plan) ==
    {f \in Entries : \E e, d \in Places(plan, f) : e # d}

\* C19: plan_document returns no plan in which some input fact is in no
\* section or in more than one place; a pass that ends with a rejected
\* answer and is not the last one leaves the context of the next call as
\* the context before it followed by the rejected answer and by a message
\* that names exactly the missing facts and exactly the facts that appear
\* more than once, not both empty; and a pass that raises leaves the
\* context as it was.
C19_RejectAndFeedBack ==
    [][/\ planner'.st = "returned" =>
            /\ MissingFacts(planner'.plan, planner.facts) = {}
            /\ DuplicatedFacts(planner'.plan) \cap Range(planner.facts) = {}
       /\ planner.st = "call" /\ planner'.st = "call" =>
            /\ planner'.attempt = planner.attempt + 1
            /\ \/ planner'.messages = planner.messages
               \/ LET answer == planner'.messages[Len(planner.messages) + 1][2]
                       plan == ConvertIds(answer, planner.facts)
                   IN
                    /\ Len(planner'.messages) = Len(planner.messages) + 2
                    /\ planner'.messages =
                         planner.messages \o
                           <<(<<"assistant", answer>>),
                             (<<"user", [missing |-> MissingFacts(plan, planner.facts),
                                         duplicates |-> DuplicatedFacts(plan)]>>)>>
                    /\ MissingFacts(plan, planner.facts) \cup DuplicatedFacts(plan) # {}]_vars

\* The second call is about to be made with the answer that put the second
\* fact into both sections, and with the message that reports it.
C19_Witness ==
    /\ planner.st = "call" /\ planner.attempt = 1
    /\ Len(planner.facts) = 2
    /\ planner.messages =
         Context0 \o
           <<(<<"assistant", <<(<<(<<"id", 1>>), (<<"id", 2>>)>>), (<<(<<"id", 2>>)>>)>> >>),
             (<<"user", [missing |-> {}, duplicates |-> {<<"text", 2>>}]>>)>>

\* The places of process_task inside the strategize, refine and plan stages.
StagePlaces == {"strategize", "strat_call", "refine", "refine_join", "plan", "plan_call"}

\* The artifacts present in an output directory.
Present(d) ==
    {<<n, 0>> : n \in {n \in {"strat", "facts", "plan"} : d[n].st # "absent"}}
      \cup {<<"cellg", c>> : c \in {c \in Cells : d.cellg[c].st # "absent"}}
      \cup {<<"factg", c>> : c \in {c \in Cells : d.factg[c].st # "absent"}}
      \cup {<<"sec", n>> : n \in {n \in SectionIds : d.sec[n].st # "absent"}}

\* C20: a job whose strategize or plan call used its last pass without an
\* accepted record returns as failed, and the refine stage hands on to the
\* plan stage only when none of its retry loops was used up; the step in
\* which a job fails inside these stages ends process_task, changes no
\* file of the job and leaves it without final artifact; and from then on
\* in the run the job starts no stage, gets no final artifact and loses no
\* artifact.
C20_StageFatalAborts ==
    [][\A j \in Jobs :
          /\ /\ pc[j] \in {"strat_call", "plan_call"} /\ Moves(j)
             /\ attempt[j] + 1 = PLAN_MAX_RETRIES /\ disk'[j] = disk[j]
             => outcome'[j] = "failed"
          /\ pc[j] = "refine_join" /\ pc'[j] = "plan" =>
               \A i \in UnitIds :
                   units[j][i].kind = "cell" => units[j][i].att < REFINE_MAX_RETRIES
          /\ pc[j] \in StagePlaces /\ outcome'[j] = "failed" =>
               /\ pc'[j] = "done"
               /\ disk'[j] = disk[j]
               /\ ~disk'[j].final.exists
          /\ outcome[j] = "failed" /\ proc' = "running" /\ run' = run =>
               /\ pc'[j] = "done" /\ outcome'[j] = "failed"
               /\ disk'[j].final = disk[j].final
               /\ Present(disk[j]) \subseteq Present(disk'[j])]_vars

\* C21: in the refine fan-out the result of a cell whose work item raised
\* or returned no record is left out of the fact list and the job does not
\* fail for it; the facts of the other cells are collected, and the stage
\* hands on to the plan stage.
C21_CellFailureNotEscalated ==
    [][\A j \in Jobs :
          pc[j] = "refine_join" /\ proc' = "running" =>
              /\ outcome'[j] # "failed"
              /\ pc'[j] \in {"refine_join", "plan"}
              /\ \A i \in UnitIds :
                   LET u == units[j][i] IN
                   u.res # "none" /\ units'[j][i].res = "none" /\ pc'[j] = "refine_join" =>
                       mem'[j].facts = IF u.res = "ok" THEN Append(mem[j].facts, u.fact)
                                       ELSE mem[j].facts]_vars

\* C22: the step in which the Write of a section ends leaves the other
\* work items and the outcome of the job as they were; when the generation
\* call failed (the text is the empty one that write_section returns for a
\* failed call, or the work item raised) no Section enters the memory of
\* the job or the section cache; and the document built from the Write
\* stage holds no section of a failed call.
C22_FailedWriteDropped ==
    [][\A j \in Jobs :
          /\ \A i \in UnitIds :
               LET u == units[j][i]
                   v == units'[j][i]
               IN
               u.kind = "write" /\ u.st = "wcall" /\ v.st = "done" =>
                   /\ outcome'[j] = outcome[j] /\ pc'[j] = pc[j]
                   /\ \A k \in UnitIds \ {i} : units'[j][k] = units[j][k]
                   /\ \/ /\ v.res = "ok"
                         /\ mem'[j].objs[i].content # EmptyContent
                         /\ disk'[j].sec[u.sid] = File("ok", mem'[j].objs[i])
                      \/ /\ v.res = "raised"
                         /\ mem'[j] = mem[j] /\ disk'[j] = disk[j]
          /\ pc[j] = "write_join" /\ pc'[j] = "round" =>
               \A p \in DOMAIN mem'[j].doc :
                   /\ units[j][mem'[j].doc[p]].res = "ok"
                   /\ mem'[j].objs[mem'[j].doc[p]].content # EmptyContent]_vars

\* C23: the paths that two jobs started for two different input files
\* use under the output path have no path in common.
C23_JobsShareNoFile ==
    namer.st = "dirs" =>
        JobPaths(namer.output[1]) \cap JobPaths(namer.output[2]) = {}

\* C24: the keys of an assignment that assign_strategies returns are
\* exactly the keys of the cells outside the key columns that are not
\* empty: none is the key of a cell of a key column, of an empty cell or of
\* a row or column the table does not have.
C24_NoExtraEntries ==
    strategist.st = "returned" =>
        strategist.assignment \subseteq
            {KeyOfCell(strategist.table_data, e) :
                e \in CellsToCover(strategist.table_data)}

\* The stage a generation call or a cache artifact belongs to, and the stage
\* a place of process_task belongs to (5: verify/repair and what follows).
StageOfKey(k) ==
    CASE k[1] = "strategy" -> 1
      [] k[1] \in {"fact_guidance", "cellg", "factg"} -> 2
      [] k[1] = "plan" -> 3
      [] k[1] = "section" -> 4
      [] OTHER -> 5
StageOfPlace(p) ==
    CASE p = "queued" -> 0
      [] p \in {"strategize", "strat_call"} -> 1
      [] p \in {"refine", "refine_join"} -> 2
      [] p \in {"plan", "plan_call"} -> 3
      [] p \in {"write", "write_join"} -> 4
      [] OTHER -> 5

\* The job is inside process_task, and at stage n or later.
Reached(j, n) == pc[j] # "done" /\ StageOfPlace(pc[j]) >= n

\* The order of the stages in a state: every generation call made and every
\* artifact loaded belongs to the stage the job is in or to an earlier
\* one; a job in a stage has the artifacts of the stages before it; and a
\* work item at work belongs to the stage its job is in, or its job has
\* returned.
InStageOrder(j) ==
    /\ \A k \in calls[j] \cup hits[j] : StageOfKey(k) <= StageOfPlace(pc[j])
    /\ Reached(j, 2) => disk[j].strat.st = "ok"
    /\ Reached(j, 3) => disk[j].facts.st = "ok"
    /\ Reached(j, 4) => disk[j].plan.st = "ok"
    /\ \A i \in UnitIds :
         LET u == units[j][i] IN
         Active(u) =>
             /\ u.kind = "cell" => pc[j] \in {"refine_join", "done"} /\ disk[j].strat.st = "ok"
             /\ u.kind = "write" => pc[j] \in {"write_join", "done"} /\ disk[j].plan.st = "ok"
             /\ u.kind = "vr" => pc[j] \in {"round_join", "done"}

\* C25: while the process runs every job is in stage order, and a stage
\* that fans out hands on only when every one of its work items is done; so
\* the first round of verify and repair starts after every Write unit of the
\* job has come to its end.
C25_StagesInOrder ==
    [][\A j \in Jobs :
          /\ proc' = "running" => InStageOrder(j)'
          /\ \/ pc[j] = "refine_join" /\ pc'[j] = "plan"
             \/ pc[j] = "write_join" /\ pc'[j] = "round"
             \/ pc[j] = "round_join" /\ pc'[j] = "round"
             => \A i \in UnitIds : units[j][i].st \in {"idle", "done"}]_vars

C25_Witness ==
    \E j \in Jobs :
        /\ pc[j] = "round_join"
        /\ \E i \in UnitIds : units[j][i].st = "repair"
        /\ {<<"strategy", 0>>, <<"cellg", 1>>, <<"plan", 0>>, <<"section", 1>>,
            <<"verify", 0>>, <<"repair", 0>>} \subseteq calls[j]

\* The Section objects of the job's document that are not verified.
UnverifiedObjects(j) ==
    {o \in Range(mem[j].doc) : ~mem[j].objs[o].verified}

\* C26: a round is started only while fewer than
\* VERIFY_AND_REPAIR_MAX_RETRIES rounds were run, and none once every
\* section is verified; a round submits one work item for every section
\* that is unverified at its start and none for another; a work item makes
\* one Verify call and after it at most one Repair call; and the rounds
\* take no section out of the document.
C26_RoundBudget ==
    [][\A j \in Jobs :
          /\ pc'[j] = "round_join" => attempt'[j] < VERIFY_AND_REPAIR_MAX_RETRIES
          /\ pc[j] = "round" /\ Moves(j) =>
               IF AllVerified(j) \/ attempt[j] >= VERIFY_AND_REPAIR_MAX_RETRIES
               THEN pc'[j] = "assemble" /\ units'[j] = units[j]
               ELSE /\ pc'[j] = "round_join"
                    /\ \A o \in UnitIds :
                         Cardinality({i \in UnitIds : /\ units'[j][i].kind = "vr"
                                                      /\ units'[j][i].st = "queued"
                                                      /\ units'[j][i].tgt = o})
                           = IF o \in UnverifiedObjects(j) THEN 1 ELSE 0
          /\ \A i \in UnitIds :
               LET u == units[j][i]
                   v == units'[j][i]
               IN
               u.kind = "vr" /\ v.kind = "vr" /\ v.st # u.st =>
                   <<u.st, v.st>> \in {<<"queued", "verify">>, <<"verify", "repair">>,
                                       <<"verify", "done">>, <<"repair", "done">>}
          /\ pc[j] \in {"round", "round_join"} /\ pc'[j] \in {"round", "round_join", "assemble"}
               => Range(mem'[j].doc) = Range(mem[j].doc)]_vars

\* C27: the step that completes the Write, a passing Verify or the Repair
\* of a section leaves the section as it then is, text and flag, in
\* section_<id>.json; a kill of the process leaves every readable section
\* artifact as it was; and a Write unit that finds its artifact readable
\* takes the section from it and writes none.
C27_SectionCacheCurrent ==
    [][\A j \in Jobs :
          /\ \A i \in UnitIds :
               LET u == units[j][i]
                   v == units'[j][i]
                   o == IF u.kind = "write" THEN i ELSE u.tgt
               IN
               /\ u.st \in {"wcall", "verify", "repair"} /\ v.st = "done" /\ v.res = "ok" =>
                    disk'[j].sec[mem'[j].objs[o].id] = File("ok", mem'[j].objs[o])
               /\ u.kind = "write" /\ u.st = "queued" /\ v.st # "queued"
                    /\ proc' = "running" /\ disk[j].sec[u.sid].st = "ok" =>
                    /\ v.st = "done"
                    /\ mem'[j].objs[i] = disk[j].sec[u.sid].val
                    /\ calls'[j] = calls[j]
          /\ proc' = "crashed" =>
               \A n \in SectionIds :
                   disk[j].sec[n].st = "ok" => disk'[j].sec[n] = disk[j].sec[n]]_vars

\* What the loop yields when its items complete in the given order.
RECURSIVE InOrder(_, _)
InOrder(f, order) ==
    IF order = <<>> THEN Filtered(f)
    ELSE InOrder([f EXCEPT !.out = Take(f, Head(order))], Tail(order))

\* C28: whatever the order in which the work items of a fan-out complete,
\* the fact list, the section list and the document of the round are the
\* ones that the order of submission yields.
C28_OrderIndependent ==
    fan.st = "done" =>
        fan.out = InOrder(FanStart(fan.kind, fan.results, fan.ids),
                          [i \in DOMAIN fan.results |-> i])

\* C29: two distinct cells of a strategy assignment get distinct cache keys,
\* hence distinct cell_guidance and fact_guidance artifacts, and two
\* sections of an accepted plan get distinct section artifacts, so that no
\* two units of a job write the same artifact.
C29_OneWriterPerArtifact ==
    namer.st \in {"keys", "paths"} => namer.output[1] # namer.output[2]

\* C30: a pass of the validate-retry loop whose answer does not parse is
\* handled like a rejection by the validator: it takes one attempt, and the
\* context of the next call has grown by the answer and by a message that
\* describes the defect.
C30_ParseFailureFedBack ==
    [][strategist.st = "call" /\ strategist'.st = "call"
         /\ strategist'.response = "text" =>
            /\ strategist'.attempt = strategist.attempt + 1
            /\ strategist'.messages = strategist.messages + 2]_vars

\* The step that ends the generation call a worker of the pool is in.
CallEnds(j, i) ==
    \/ CellGenReturn(j, i) \/ CellCheckReturn(j, i)
    \/ FactGenReturn(j, i) \/ FactCheckReturn(j, i)
    \/ WriteReturn(j, i) \/ VerifyReturn(j, i) \/ RepairReturn(j, i)

Joins == {"refine_join", "write_join", "round_join"}

\* C31: every work item submitted to the generation pool is started and
\* finished, and every join of a fan-out returns (unless the process is
\* killed); a work item that a worker is running can always go on, whatever
\* the other work items of the pool are doing.
C31_EventualAdmission ==
    /\ [](\A j \in Jobs, i \in UnitIds :
            proc = "running" /\ units[j][i].st \in CallStates =>
                ENABLED CallEnds(j, i))
    /\ \A j \in Jobs, i \in UnitIds :
         /\ (units[j][i].st = "queued") ~>
                (units[j][i].st \in CallStates \cup {"done"} \/ proc = "crashed")
         /\ Active(units[j][i]) ~> (~Active(units[j][i]))
    /\ \A j \in Jobs : (pc[j] \in Joins) ~> (pc[j] \notin Joins)

\* The only worker of the pool is inside a generation call of one job while
\* a work item of the other job waits in the queue.
C31_Witness ==
    /\ Running = MAX_CONCURRENT_REQUESTS
    /\ workQ # <<>>
    /\ \E j \in Jobs, i \in UnitIds :
         /\ units[j][i].st \in CallStates
         /\ Head(workQ)[1] # j
         /\ pc[Head(workQ)[1]] \in Joins

\* C32: a cell guidance that was generated is stored and handed on, and a
\* fact guidance with sub-facts is stored and returned, only in the step in
\* which the check call accepts the candidate of the same pass of the loop;
\* a stored fact guidance with sub-facts is otherwise only loaded.
C32_StoredOnlyIfChecked ==
    [][\A j \in Jobs :
         /\ \A c \in Cells :
              LET cg == disk'[j].cellg[c]
                  fg == disk'[j].factg[c]
              IN
              /\ cg # disk[j].cellg[c] /\ cg.st = "ok" /\ cg.val # 0 =>
                    \E i \in UnitIds :
                        /\ units[j][i].st = "check" /\ units[j][i].tgt = c
                        /\ units'[j][i].st \in {"fgen", "done"}
                        /\ units'[j][i].g = cg.val
              /\ fg # disk[j].factg[c] /\ fg.st = "ok" /\ fg.val.split =>
                    \E i \in UnitIds :
                        /\ units[j][i].st = "fcheck" /\ units[j][i].tgt = c
                        /\ units'[j][i].st = "done" /\ units'[j][i].res = "ok"
                        /\ units'[j][i].att = units[j][i].att
                        /\ units'[j][i].fact = fg.val
         /\ \A i \in UnitIds :
              LET u == units[j][i]
                  v == units'[j][i]
              IN
              /\ u.st = "check" /\ v.st \in {"fgen", "done"} /\ v.res # "raised" =>
                    disk'[j].cellg[u.tgt] = File("ok", v.g)
              /\ u.kind = "cell" /\ u.st # "done" /\ v.st = "done" /\ v.res = "ok"
                    /\ v.fact.split =>
                    /\ u.st \in {"fcheck", "queued"}
                    /\ disk'[j].factg[u.tgt] = File("ok", v.fact)]_vars

\* The check has accepted a split at the second pass of the loop, after it
\* rejected the one of the first pass: the fact is in its artifact.
C32_Witness ==
    \E j \in Jobs, i \in UnitIds :
        /\ units[j][i].kind = "cell" /\ units[j][i].st = "done"
        /\ units[j][i].res = "ok" /\ units[j][i].att = 1
        /\ units[j][i].fact.split /\ units[j][i].fact.stamp = run
        /\ disk[j].factg[units[j][i].tgt] = File("ok", units[j][i].fact)
        /\ disk[j].cellg[units[j][i].tgt] = File("ok", units[j][i].g)
        /\ units[j][i].g # 0

\* How far process_task has come: the stage, then the assembly, the commit
\* and the return.
Rank(p) ==
    CASE p = "assemble" -> 6
      [] p = "commit" -> 7
      [] p \in {"done", "dead"} -> 8
      [] OTHER -> StageOfPlace(p)

\* The loop of process_task a place belongs to.
LoopOfPlace(p) ==
    CASE p \in {"round", "round_join"} -> "rounds"
      [] p \in {"strat_call", "plan_call", "commit"} -> p
      [] OTHER -> "none"

\* The loop counters are below their ceilings while a call of the loop is
\* under way.
WithinCeilings(j) ==
    /\ pc[j] \in {"strat_call", "plan_call"} => attempt[j] < PLAN_MAX_RETRIES
    /\ pc[j] = "round_join" => attempt[j] < VERIFY_AND_REPAIR_MAX_RETRIES
    /\ pc[j] = "round" => attempt[j] <= VERIFY_AND_REPAIR_MAX_RETRIES
    /\ \A i \in UnitIds :
         units[j][i].st \in {"gen", "check", "fgen", "fcheck"} =>
             units[j][i].att < REFINE_MAX_RETRIES

\* C33: every process_task that was entered returns (or is killed with the
\* process), as committed, incomplete or failed, or at once because the
\* final artifact is there.  On the way it never goes back to an earlier
\* stage, every loop counter stays within its ceiling and is never set back
\* inside its stage, and every further generation call of a retry loop
\* counts one pass more.
C33_TerminatesBounded ==
    /\ [](\A j \in Jobs :
            /\ WithinCeilings(j)
            /\ pc[j] = "done" /\ j \in cfg.files =>
                  /\ outcome[j] \in {"committed", "incomplete", "failed", "skipped"}
                  /\ outcome[j] \in {"committed", "skipped"} => disk[j].final.exists)
    /\ [][run' = run =>
            \A j \in Jobs :
              /\ Rank(pc'[j]) >= Rank(pc[j])
              /\ LoopOfPlace(pc[j]) # "none" /\ LoopOfPlace(pc'[j]) = LoopOfPlace(pc[j]) =>
                    attempt'[j] >= attempt[j]
              /\ pc[j] \in {"strat_call", "plan_call"} /\ pc'[j] = pc[j]
                    /\ <<attempt[j], mem[j]>> # <<attempt'[j], mem'[j]>> =>
                    attempt'[j] = attempt[j] + 1
              /\ \A i \in UnitIds :
                   LET u == units[j][i]
                       v == units'[j][i]
                   IN
                   /\ u.st \in {"check", "gen"} /\ v.st = "gen" /\ u # v =>
                         v.att = u.att + 1
                   /\ u.st \in {"fcheck", "fgen"} /\ v.st = "fgen" /\ u # v =>
                         v.att = u.att + 1
                   /\ u.st = "verify" => v.st \in {"verify", "repair", "done", "idle"}
                   /\ u.st = "repair" => v.st \in {"repair", "done", "idle"}]_vars
    /\ \A j \in Jobs :
         (pc[j] \notin {"queued", "done", "dead"}) ~> (pc[j] \in {"done", "dead"})

\* The rounds of verify and repair are used up with a section unverified,
\* after generation calls of every stage.
C33_Witness ==
    \E j \in Jobs :
        /\ pc[j] = "assemble"
        /\ attempt[j] = VERIFY_AND_REPAIR_MAX_RETRIES
        /\ ~AllVerified(j)
        /\ {k[1] : k \in calls[j]} =
              {"strategy", "cellg", "factg", "plan", "section", "verify", "repair"}

\* C34: a section that is verified is not under verification or repair;
\* while process_task goes on, its content and flag stay as they are; and
\* what the synthesis writes for a section is the content of a verified
\* section.
C34_VerifiedIsStable ==
    [][\A j \in Jobs :
         proc' = "running" /\ run' = run /\ pc'[j] \notin {"done", "queued"} =>
             /\ \A o \in UnitIds :
                  mem[j].objs[o].verified =>
                      /\ mem'[j].objs[o] = mem[j].objs[o]
                      /\ \A i \in UnitIds :
                           units'[j][i].kind = "vr" /\ units'[j][i].tgt = o =>
                               units'[j][i].st \in {"done", "idle"}
             /\ disk'[j].final.body # disk[j].final.body /\ disk[j].final.exists =>
                  \E p \in DOMAIN mem[j].doc :
                      /\ mem[j].objs[mem[j].doc[p]].verified
                      /\ disk'[j].final.body =
                            Append(disk[j].final.body, mem[j].objs[mem[j].doc[p]].content)
                      /\ p = Len(disk'[j].final.body)]_vars

\* C35: when process_task writes the final artifact, the document has one
\* section for every section of the plan, in the order of the plan, and the
\* plan has a section.
C35_CommitsWholePlan ==
    \A j \in Jobs :
        pc[j] = "commit" =>
            /\ mem[j].plan.ids # <<>>
            /\ mem[j].doc = [n \in DOMAIN mem[j].plan.ids |-> n]

\* C36: with the shipped configuration (strategies assigned,
\* DISPERSION_STRATEGY as config.py has it) and nothing from an earlier run,
\* process_task fails only in a step in which a generation call, a parser,
\* a validator or a check failed; on the path on which all of them succeed
\* it goes through its stages to the commit.
C36_HappyPathCommits ==
    [][\A j \in Jobs :
         /\ cfg.strategize /\ ~cfg.dispersion /\ j \notin cfg.unreadable
         /\ run = 1 /\ run' = 1
         /\ outcome[j] # "failed" /\ outcome'[j] = "failed"
         => pc[j] \in {"strat_call", "plan_call", "refine_join", "round_join"}]_vars

\* C37: when process_task has returned for a job, no work item of the job
\* is queued in the generation pool or run by one of its workers; so none
\* makes a generation call or writes an artifact of the job afterwards.
C37_NoUnitAfterReturn ==
    \A j \in Jobs :
        pc[j] = "done" => \A i \in UnitIds : ~Active(units[j][i])

\* The cells of the assignment that have no fact in the fact list.
LeftOut(facts) == {c \in Cells : \A n \in DOMAIN facts : facts[n].cell # c}

\* C38: a run that comes to the refine stage and finds a fact_guidance
\* artifact in which a cell of the assignment has no fact does not take the
\* artifact for the result of the stage: it submits a work item for every
\* such cell.
C38_LeftOutCellRetried ==
    [][\A j \in Jobs :
         /\ pc[j] = "refine" /\ pc'[j] # "refine" /\ proc' = "running"
         /\ disk[j].facts.st = "ok" /\ LeftOut(disk[j].facts.val) # {}
         => /\ pc'[j] = "refine_join"
            /\ \A c \in LeftOut(disk[j].facts.val) :
                 \E i \in UnitIds :
                     units'[j][i].kind = "cell" /\ units'[j][i].tgt = c]_vars

\* C39: a run returns at once for a job, taking it for complete, only when
\* the final artifact holds the content of every section: every section
\* that is still in the section cache has its content in the artifact.
C39_MarkerIsWhole ==
    [][\A j \in Jobs :
         invoked'[j] > invoked[j] /\ outcome'[j] = "skipped" =>
             \A sid \in SectionIds :
                 disk[j].sec[sid].st = "ok" =>
                     \E n \in DOMAIN disk[j].final.body :
                         disk[j].final.body[n] = disk[j].sec[sid].val.content]_vars

\* C40: whatever the Verify call of a work item gives, a failure or a
\* result of any shape, the work item does not raise: the section is marked
\* verified on a pass, and otherwise Repair is called; and the Repair call
\* ends the work item with the section unverified, with the repaired
\* content or, when the call failed, with the content it had.
C40_VerifyFailureIsDefect ==
    [][\A j \in Jobs, i \in UnitIds :
         LET u == units[j][i]
             v == units'[j][i]
             o == u.tgt
         IN
         /\ u.st = "verify" /\ v # u /\ proc' = "running" =>
               \/ v.st = "repair" /\ mem'[j].objs[o] = mem[j].objs[o]
               \/ v.st = "done" /\ v.res = "ok" /\ mem'[j].objs[o].verified
         /\ u.st = "repair" /\ v # u /\ proc' = "running" =>
               /\ v.st = "done" /\ v.res = "ok"
               /\ ~mem'[j].objs[o].verified
               /\ mem'[j].objs[o].content \in
                     {mem[j].objs[o].content, Repaired(mem[j].objs[o], o).content}]_vars

====
